---- MODULE Spec2Model ----
(***************************************************************************)
(* Model of package env (github.com/ndisidore/go-env): the typed           *)
(* environment-variable reader FromEnvOrDefault / MustFromEnvOrDefault,    *)
(* its option set (options.go) and the context-taking parse engine.        *)
(*                                                                         *)
(* A Go string is a sequence of one-character strings.  The standard       *)
(* library conversions (strconv, time, net/url, strings) are operators     *)
(* that compute what the library computes on the strings the model draws   *)
(* its inputs from (RawValues, ValueSymbols, TestValues).                  *)
(***************************************************************************)
EXTENDS Integers, Sequences, FiniteSets, TLC

VARIABLES
    defaultParseOptions,  \* the package-level option set (options.go)
    globalMarshallers,    \* contents of the map object that the package-level
                          \* customMarshallers field refers to
    pc,                   \* "idle" | "returned" | "exited" | "panicked"
    call,                 \* arguments of the last call
    ret,                  \* what the last call returned: value and error
    trace,                \* what the last call did, in order
    log,                  \* records written to the default slog logger
    exitCode,             \* the status given to os.Exit; 0 while running
    goroutines            \* the calls running concurrently, each on its
                          \* own goroutine: arguments, position, locals

vars ==
    <<defaultParseOptions, globalMarshallers, pc, call, ret, trace, log,
      exitCode, goroutines>>

----------------------------------------------------------------------------
(* Bounds *)

MaxOpts == 2      \* options passed to one FromEnvOrDefault call in Spec
MaxMustOpts == 1  \* options passed to one MustFromEnvOrDefault call in Spec
MaxValLen == 3    \* symbols in a raw value drawn by SpecValues
MaxGoroutines == 2  \* goroutines calling concurrently in SpecConcurrent

----------------------------------------------------------------------------
(* Characters and strings *)

DigitChars == {"0", "1", "2", "3", "4", "5", "6", "7", "8", "9"}

LowerChars ==
    {"a", "b", "c", "d", "e", "f", "g", "h", "i", "j", "k", "l", "m",
     "n", "o", "p", "q", "r", "s", "t", "u", "v", "w", "x", "y", "z"}

UpperChars ==
    {"A", "B", "C", "D", "E", "F", "G", "H", "I", "J", "K", "L", "M",
     "N", "O", "P", "Q", "R", "S", "T", "U", "V", "W", "X", "Y", "Z"}

LetterChars == LowerChars \cup UpperChars

\* unicode.IsSpace on the characters a raw value can hold
SpaceChars == {" ", "\t", "\n", "\r", "\f"}

\* "2021-01-01T00:00:00Z", the RFC3339 timestamp of the tests
TSChars ==
    <<"2", "0", "2", "1", "-", "0", "1", "-", "0", "1", "T",
      "0", "0", ":", "0", "0", ":", "0", "0", "Z">>

\* "Fri, 01 Jan 2021 00:00:00 UTC", the same instant written as RFC1123
TS1123Chars ==
    <<"F", "r", "i", ",", " ", "0", "1", " ", "J", "a", "n", " ",
      "2", "0", "2", "1", " ", "0", "0", ":", "0", "0", ":", "0", "0", " ",
      "U", "T", "C">>

RECURSIVE Flatten(_)
Flatten(w) ==
    IF w = <<>> THEN <<>> ELSE Head(w) \o Flatten(Tail(w))

\* all words of at most n symbols, each symbol a string
RECURSIVE Words(_, _)
Words(syms, n) ==
    IF n = 0 THEN {<<>>}
    ELSE LET shorter == Words(syms, n - 1)
         IN  shorter \cup {w \o s : w \in shorter, s \in syms}

DropPrefix(s, n) == SubSeq(s, n + 1, Len(s))

\* strings.Index, 1-based; 0 when sep does not occur
Index(s, sep) ==
    LET hits == {i \in 1..(Len(s) - Len(sep) + 1) :
                    SubSeq(s, i, i + Len(sep) - 1) = sep}
    IN  IF hits = {} THEN 0
        ELSE CHOOSE i \in hits : \A j \in hits : i <= j

Contains(s, sub) == Index(s, sub) # 0

----------------------------------------------------------------------------
(* package strings *)

\* Split looking for the next separator one symbol after the start of the
\* last one, whatever the length of the separator
RECURSIVE SplitByOne(_, _)
SplitByOne(s, sep) ==
    IF sep = <<>>
    THEN [i \in 1..Len(s) |-> <<s[i]>>]
    ELSE IF Index(s, sep) = 0 THEN <<s>>
    ELSE <<SubSeq(s, 1, Index(s, sep) - 1)>>
            \o SplitByOne(DropPrefix(s, Index(s, sep)), sep)

\* Split dropping the piece after the last separator, and so all of a
\* string without one
RECURSIVE SplitDropsLast(_, _)
SplitDropsLast(s, sep) ==
    IF sep = <<>>
    THEN [i \in 1..Len(s) |-> <<s[i]>>]
    ELSE IF Index(s, sep) = 0 THEN <<>>
    ELSE <<SubSeq(s, 1, Index(s, sep) - 1)>>
            \o SplitDropsLast(DropPrefix(s, Index(s, sep) + Len(sep) - 1), sep)

\* strings.Split(s, sep): the pieces of s between the non-overlapping
\* occurrences of sep, found left to right; sep = "" explodes s
RECURSIVE Split(_, _)
Split(s, sep) ==
    IF sep = <<>>
    THEN [i \in 1..Len(s) |-> <<s[i]>>]
    ELSE LET m == Index(s, sep)
         IN  IF m = 0 THEN <<s>>
             ELSE <<SubSeq(s, 1, m - 1)>>
                    \o Split(DropPrefix(s, m + Len(sep) - 1), sep)

\* strings.TrimSpace
RECURSIVE TrimLeft(_)
TrimLeft(s) ==
    IF s # <<>> /\ Head(s) \in SpaceChars THEN TrimLeft(Tail(s)) ELSE s

RECURSIVE TrimRight(_)
TrimRight(s) ==
    IF s # <<>> /\ s[Len(s)] \in SpaceChars
    THEN TrimRight(SubSeq(s, 1, Len(s) - 1)) ELSE s

TrimSpace(s) == TrimRight(TrimLeft(s))

\* strings.Join
RECURSIVE Join(_, _)
Join(elems, sep) ==
    IF elems = <<>> THEN <<>>
    ELSE IF Len(elems) = 1 THEN elems[1]
    ELSE elems[1] \o sep \o Join(Tail(elems), sep)

----------------------------------------------------------------------------
(* package strconv *)

ErrSyntax == "invalid syntax"
ErrRange == "value out of range"

Conv(ok, cause, val) == [ok |-> ok, cause |-> cause, val |-> val]

TrueLiterals ==
    {<<"1">>, <<"t">>, <<"T">>, <<"T", "R", "U", "E">>,
     <<"t", "r", "u", "e">>, <<"T", "r", "u", "e">>}

FalseLiterals ==
    {<<"0">>, <<"f">>, <<"F">>, <<"F", "A", "L", "S", "E">>,
     <<"f", "a", "l", "s", "e">>, <<"F", "a", "l", "s", "e">>}

ParseBool(str) ==
    IF str \in TrueLiterals THEN Conv(TRUE, "", TRUE)
    ELSE IF str \in FalseLiterals THEN Conv(TRUE, "", FALSE)
    ELSE Conv(FALSE, ErrSyntax, FALSE)

\* An integer value is a sign and a magnitude, the magnitude being its
\* decimal digits without leading zeros, so that 64-bit values are exact.
Number(neg, mag) == [neg |-> neg /\ mag # <<"0">>, mag |-> mag]

ZeroNumber == Number(FALSE, <<"0">>)

RECURSIVE StripZeros(_)
StripZeros(d) ==
    IF Len(d) > 1 /\ Head(d) = "0" THEN StripZeros(Tail(d)) ELSE d

DigitValue(c) ==
    CASE c = "0" -> 0 [] c = "1" -> 1 [] c = "2" -> 2 [] c = "3" -> 3
      [] c = "4" -> 4 [] c = "5" -> 5 [] c = "6" -> 6 [] c = "7" -> 7
      [] c = "8" -> 8 [] c = "9" -> 9

\* a <= b for magnitudes without leading zeros
RECURSIVE LexLeq(_, _)
LexLeq(a, b) ==
    IF a = <<>> THEN TRUE
    ELSE IF DigitValue(Head(a)) # DigitValue(Head(b))
         THEN DigitValue(Head(a)) < DigitValue(Head(b))
         ELSE LexLeq(Tail(a), Tail(b))

MagLeq(a, b) ==
    IF Len(a) # Len(b) THEN Len(a) < Len(b) ELSE LexLeq(a, b)

\* 1<<64 - 1
MaxUint64 ==
    <<"1", "8", "4", "4", "6", "7", "4", "4", "0", "7",
      "3", "7", "0", "9", "5", "5", "1", "6", "1", "5">>

\* 1<<63 - 1
MaxInt64 ==
    <<"9", "2", "2", "3", "3", "7", "2", "0", "3", "6",
      "8", "5", "4", "7", "7", "5", "8", "0", "7">>

\* 1<<63, the magnitude of the least int64
MinInt64Mag ==
    <<"9", "2", "2", "3", "3", "7", "2", "0", "3", "6",
      "8", "5", "4", "7", "7", "5", "8", "0", "8">>

AllDigits(s) == \A i \in 1..Len(s) : s[i] \in DigitChars

\* ParseUint without the range check
ParseUintUnchecked(s) ==
    IF s = <<>> \/ ~AllDigits(s) THEN Conv(FALSE, ErrSyntax, ZeroNumber)
    ELSE Conv(TRUE, "", Number(FALSE, StripZeros(s)))

\* strconv.ParseUint(s, 10, 64): digits only, no sign
ParseUint(s) ==
    IF s = <<>> \/ ~AllDigits(s) THEN Conv(FALSE, ErrSyntax, ZeroNumber)
    ELSE IF ~MagLeq(StripZeros(s), MaxUint64)
         THEN Conv(FALSE, ErrRange, ZeroNumber)
         ELSE Conv(TRUE, "", Number(FALSE, StripZeros(s)))

\* s without its sign
Unsigned(s) == IF s # <<>> /\ Head(s) \in {"+", "-"} THEN Tail(s) ELSE s

\* the range check of ParseInt on the magnitude un that ParseUint found
SignedRange(neg, un) ==
    IF ~un.ok THEN un
    ELSE IF ~neg /\ ~MagLeq(un.val.mag, MaxInt64)
         THEN Conv(FALSE, ErrRange, ZeroNumber)
    ELSE IF neg /\ ~MagLeq(un.val.mag, MinInt64Mag)
         THEN Conv(FALSE, ErrRange, ZeroNumber)
    ELSE Conv(TRUE, "", Number(neg, un.val.mag))

\* strconv.ParseInt(s, 10, 64): an optional sign, then digits
ParseInt(s) ==
    IF s = <<>> THEN Conv(FALSE, ErrSyntax, ZeroNumber)
    ELSE SignedRange(Head(s) = "-", ParseUint(Unsigned(s)))

\* strconv.Atoi on a platform whose int is 64 bits wide
Atoi(s) == ParseInt(s)

\* strconv.ParseFloat(s, 64) on strings without '.', exponent, hex prefix,
\* underscore, "inf" or "nan": an optional sign, then digits
ParseFloat(s) ==
    IF Unsigned(s) = <<>> \/ ~AllDigits(Unsigned(s))
    THEN Conv(FALSE, ErrSyntax, ZeroNumber)
    ELSE Conv(TRUE, "", Number(Head(s) = "-", StripZeros(Unsigned(s))))

----------------------------------------------------------------------------
(* package time *)

\* length of the longest prefix of s made of digits
RECURSIVE DigitRun(_)
DigitRun(s) ==
    IF s # <<>> /\ Head(s) \in DigitChars THEN 1 + DigitRun(Tail(s)) ELSE 0

\* length of the longest prefix of s holding neither a digit nor '.'
RECURSIVE UnitRun(_)
UnitRun(s) ==
    IF s # <<>> /\ Head(s) \notin DigitChars \cup {"."}
    THEN 1 + UnitRun(Tail(s)) ELSE 0

RECURSIVE Num(_)
Num(d) ==
    IF d = <<>> THEN 0 ELSE 10 * Num(SubSeq(d, 1, Len(d) - 1)) + DigitValue(d[Len(d)])

\* seconds per unit, for the units of time.unitMap that are whole seconds
UnitSeconds(u) ==
    CASE u = <<"s">> -> 1
      [] u = <<"m">> -> 60
      [] u = <<"h">> -> 3600
      [] OTHER -> 0

ErrDuration == "invalid duration"
ErrMissingUnit == "missing unit in duration"
ErrUnknownUnit == "unknown unit in duration"

\* one term of a duration: n digits of s, then the unit that follows them
DurationTerm(s, n, unit) ==
    IF unit = <<>> THEN Conv(FALSE, ErrMissingUnit, 0)
    ELSE IF UnitSeconds(unit) = 0 THEN Conv(FALSE, ErrUnknownUnit, 0)
    ELSE Conv(TRUE, "", Num(SubSeq(s, 1, n)) * UnitSeconds(unit))

FirstUnit(rest) == SubSeq(rest, 1, UnitRun(rest))

\* the loop of time.ParseDuration over (digits unit)+, value in seconds
RECURSIVE DurationTerms(_, _)
RECURSIVE DurationRest(_, _, _)
DurationRest(rest, acc, term) ==
    IF ~term.ok THEN term
    ELSE DurationTerms(DropPrefix(rest, UnitRun(rest)), acc + term.val)

DurationTerms(s, acc) ==
    IF s = <<>> THEN Conv(TRUE, "", acc)
    ELSE IF Head(s) \notin DigitChars THEN Conv(FALSE, ErrDuration, 0)
    ELSE DurationRest(DropPrefix(s, DigitRun(s)), acc,
                      DurationTerm(s, DigitRun(s),
                                   FirstUnit(DropPrefix(s, DigitRun(s)))))

Negated(neg, sum) ==
    IF ~sum.ok THEN sum
    ELSE Conv(TRUE, "", IF neg THEN 0 - sum.val ELSE sum.val)

\* time.ParseDuration: [-+]? then "0" or a sequence of terms
ParseDuration(s) ==
    IF Unsigned(s) = <<"0">> THEN Conv(TRUE, "", 0)
    ELSE IF Unsigned(s) = <<>> THEN Conv(FALSE, ErrDuration, 0)
    ELSE Negated(Head(s) = "-", DurationTerms(Unsigned(s), 0))

\* time layouts; a layout is an opaque Go string here
RFC3339 == "2006-01-02T15:04:05Z07:00"
RFC1123 == "Mon, 02 Jan 2006 15:04:05 MST"

ZeroTime == "0001-01-01T00:00:00Z"
ErrTime == "parsing time"

\* time.Parse(layout, s): of the strings a call can see, only TSChars
\* matches RFC3339 and only TS1123Chars matches RFC1123; both are the same
\* instant
TimeParse(layout, s) ==
    IF (layout = RFC3339 /\ s = TSChars) \/ (layout = RFC1123 /\ s = TS1123Chars)
    THEN Conv(TRUE, "", "2021-01-01T00:00:00Z")
    ELSE Conv(FALSE, ErrTime, ZeroTime)

----------------------------------------------------------------------------
(* package net/url *)

URL(scheme, opaque, path) ==
    [Scheme |-> scheme, Opaque |-> opaque, Path |-> path]

ZeroURL == URL(<<>>, <<>>, <<>>)

LowerSeq ==
    <<"a", "b", "c", "d", "e", "f", "g", "h", "i", "j", "k", "l", "m",
      "n", "o", "p", "q", "r", "s", "t", "u", "v", "w", "x", "y", "z">>

UpperSeq ==
    <<"A", "B", "C", "D", "E", "F", "G", "H", "I", "J", "K", "L", "M",
      "N", "O", "P", "Q", "R", "S", "T", "U", "V", "W", "X", "Y", "Z">>

ToLower(s) ==
    [i \in 1..Len(s) |->
        IF s[i] \in UpperChars
        THEN LowerSeq[CHOOSE k \in 1..Len(UpperSeq) : UpperSeq[k] = s[i]]
        ELSE s[i]]

\* url.getScheme: [ok, scheme, rest]
RECURSIVE GetSchemeFrom(_, _)
GetSchemeFrom(rawURL, i) ==
    IF i > Len(rawURL)
    THEN [ok |-> TRUE, scheme |-> <<>>, rest |-> rawURL]
    ELSE LET c == rawURL[i]
         IN  IF c \in LetterChars THEN GetSchemeFrom(rawURL, i + 1)
             ELSE IF c \in DigitChars \cup {"+", "-", "."}
                  THEN IF i = 1
                       THEN [ok |-> TRUE, scheme |-> <<>>, rest |-> rawURL]
                       ELSE GetSchemeFrom(rawURL, i + 1)
             ELSE IF c = ":"
                  THEN IF i = 1
                       THEN [ok |-> FALSE, scheme |-> <<>>, rest |-> <<>>]
                       ELSE [ok |-> TRUE, scheme |-> SubSeq(rawURL, 1, i - 1),
                             rest |-> DropPrefix(rawURL, i)]
             ELSE [ok |-> TRUE, scheme |-> <<>>, rest |-> rawURL]

ErrURLScheme == "missing protocol scheme"
ErrURLColon == "first path segment in URL cannot contain colon"

\* url.Parse after getScheme returned g
ParseAfterScheme(g) ==
    IF ~g.ok THEN Conv(FALSE, ErrURLScheme, ZeroURL)
    ELSE IF g.scheme # <<>>
         THEN Conv(TRUE, "", URL(ToLower(g.scheme), g.rest, <<>>))
    ELSE IF Contains(g.rest, <<":">>)
         THEN Conv(FALSE, ErrURLColon, ZeroURL)
    ELSE Conv(TRUE, "", URL(<<>>, <<>>, g.rest))

\* url.Parse on strings without '/', '?', '#', '%', '@', '[' or control
\* characters
UrlParse(rawURL) == ParseAfterScheme(GetSchemeFrom(rawURL, 1))

----------------------------------------------------------------------------
(* Go types and values *)

ScalarTypes ==
    {"string", "bool", "int", "uint", "int64", "uint64", "float64",
     "time.Duration", "time.Time", "url.URL"}

SliceTypes ==
    {"[]string", "[]bool", "[]int", "[]uint", "[]int64", "[]uint64",
     "[]float64", "[]time.Duration", "[]time.Time", "[]url.URL"}

\* the cases of the type switch
BuiltinTypes == ScalarTypes \cup SliceTypes

\* caller-defined types: a struct, and a named integer type
CustomTypes == {"Config", "LogLevel"}

Types == BuiltinTypes \cup CustomTypes

\* interface types a caller may instantiate T with: the type parameter is
\* constrained by any alone
InterfaceTypes == {"error", "fmt.Stringer"}

\* the dynamic type dyn is assignable to T: it is T, or T is an interface
\* it implements; of the caller-defined types LogLevel has a String method
Implements(dyn, T) ==
    \/ dyn = T
    \/ T = "fmt.Stringer" /\ dyn = "LogLevel"

\* the dynamic type of the values a conversion to T yields: for the
\* interface it is the caller's type that implements it
DynamicType(T) == IF T = "fmt.Stringer" THEN "LogLevel" ELSE T

\* reflect.TypeOf of the zero value of T: the zero value of an interface
\* type is the nil interface, whose reflect.Type is nil
TypeOf(T) == IF T \in InterfaceTypes THEN "nil" ELSE T

ElemType(T) ==
    CASE T = "[]string" -> "string"
      [] T = "[]bool" -> "bool"
      [] T = "[]int" -> "int"
      [] T = "[]uint" -> "uint"
      [] T = "[]int64" -> "int64"
      [] T = "[]uint64" -> "uint64"
      [] T = "[]float64" -> "float64"
      [] T = "[]time.Duration" -> "time.Duration"
      [] T = "[]time.Time" -> "time.Time"
      [] T = "[]url.URL" -> "url.URL"

NumberTypes == {"int", "uint", "int64", "uint64", "float64", "LogLevel"}

\* a slice is nil or holds elements
Slice(elems) == [isNil |-> FALSE, elems |-> elems]
NilSlice == [isNil |-> TRUE, elems |-> <<>>]

\* a value of the static type T: the type and what the value holds
Val(T, rep) == <<T, rep>>

\* what the zero value of T holds
ZeroRep(T) ==
    CASE T = "string" -> <<>>
      [] T = "bool" -> FALSE
      [] T \in NumberTypes -> ZeroNumber
      [] T = "time.Duration" -> 0
      [] T = "time.Time" -> ZeroTime
      [] T = "url.URL" -> ZeroURL
      [] T = "Config" -> [cfg |-> <<>>]
      [] T \in InterfaceTypes -> [dyn |-> "nil", val |-> ZeroNumber]
      [] T \in SliceTypes -> NilSlice

Zero(T) == Val(T, ZeroRep(T))

\* the default a caller passes for T: neither Zero(T) nor, where the type
\* has enough values, anything a conversion of the drawn inputs yields
RECURSIVE DefaultRep(_)
DefaultRep(T) ==
    CASE T = "string" -> <<"d">>
      [] T = "bool" -> TRUE
      [] T \in NumberTypes -> Number(FALSE, <<"7">>)
      [] T = "time.Duration" -> 7
      [] T = "time.Time" -> "2000-01-01T00:00:00Z"
      [] T = "url.URL" -> URL(<<>>, <<>>, <<"d">>)
      [] T = "Config" -> [cfg |-> <<"d">>]
      [] T \in InterfaceTypes ->
            [dyn |-> "LogLevel", val |-> Number(FALSE, <<"7">>)]
      [] T \in SliceTypes ->
            Slice(<<DefaultRep(ElemType(T)), DefaultRep(ElemType(T))>>)

DefaultVal(T) == Val(T, DefaultRep(T))

\* an interface value: its dynamic type and the value; the nil interface
\* has dynamic type "nil"
Iface(dyn, val) == [dyn |-> dyn, val |-> val]

----------------------------------------------------------------------------
(* options.go *)

Names == {<<"A">>, <<"B">>}

EmptyEnv == [n \in Names |-> <<>>]

\* an EnvLoader: nil, os.Getenv, or a function backed by a map
NilLoader == [kind |-> "nil", env |-> EmptyEnv]
OsGetenv == [kind |-> "os.Getenv", env |-> EmptyEnv]
MapLoader(envs) == [kind |-> "func", env |-> envs]

\* a CustomMarshaller: nil, or an object whose UnmarshalEnv fails or
\* returns a value of the type it produces ("nil": the nil interface
\* value); nilFunc marks the wrapper of a nil conversion function
NilMarshaller ==
    [isNil |-> TRUE, fails |-> FALSE, produces |-> "nil", nilFunc |-> FALSE]
Marshaller(produces) ==
    [isNil |-> FALSE, fails |-> FALSE, produces |-> produces, nilFunc |-> FALSE]
FailingMarshaller ==
    [isNil |-> FALSE, fails |-> TRUE, produces |-> "nil", nilFunc |-> FALSE]

\* a func(string) (T, error): nil, one that fails, one that returns a T
NilFunc == [isNil |-> TRUE, fails |-> FALSE]
Func == [isNil |-> FALSE, fails |-> FALSE]
FailingFunc == [isNil |-> FALSE, fails |-> TRUE]

\* the closure WithCustomMarshallerFunc[T] wraps marshallerFunc in: never
\* nil itself, it calls marshallerFunc when it is invoked
CustomMarshallerFunc(T, marshallerFunc) ==
    [isNil |-> FALSE, fails |-> marshallerFunc.fails,
     produces |-> IF marshallerFunc.fails \/ marshallerFunc.isNil
                  THEN "nil" ELSE DynamicType(T),
     nilFunc |-> marshallerFunc.isNil]

\* what the value holds that a marshaller producing T returns: never what
\* Zero(T) or DefaultVal(T) hold, where the type has enough values
RECURSIVE CustomVal(_, _)
CustomVal(T, value) ==
    CASE T = "string" -> <<"m">> \o value
      [] T = "bool" -> TRUE
      [] T \in NumberTypes -> Number(FALSE, <<"9">>)
      [] T = "time.Duration" -> 9
      [] T = "time.Time" -> "1999-01-01T00:00:00Z"
      [] T = "url.URL" -> URL(<<>>, <<>>, <<"m">> \o value)
      [] T = "Config" -> [cfg |-> value]
      [] T \in SliceTypes -> Slice(<<CustomVal(ElemType(T), value)>>)

ErrMarshaller == "marshaller failed"

\* CustomMarshaller.UnmarshalEnv: the call of a nil function panics
UnmarshalEnv(m, value) ==
    IF m.nilFunc
    THEN [v |-> Iface("nil", FALSE), cause |-> "", panicked |-> TRUE]
    ELSE IF m.fails
    THEN [v |-> Iface("nil", FALSE), cause |-> ErrMarshaller,
          panicked |-> FALSE]
    ELSE IF m.produces = "nil"
    THEN [v |-> Iface("nil", FALSE), cause |-> "", panicked |-> FALSE]
    ELSE [v |-> Iface(m.produces, CustomVal(m.produces, value)), cause |-> "",
          panicked |-> FALSE]

\* a map[reflect.Type]CustomMarshaller object
EmptyRegistry == [k \in {} |-> NilMarshaller]

\* envParseOpts; customMarshallers refers to a map object: "nil", the
\* package-level map "global", or the map "local" made during a call
EnvParseOpts(loader, sep, onError, layout, sensitive, ref) ==
    [envLoader |-> loader, separator |-> sep, defaultOnError |-> onError,
     timeLayout |-> layout, sensitive |-> sensitive, customMarshallers |-> ref]

\* an EnvParseOption, as the constructor that made it and its argument
Option(opt, loader, sep, layout, flag, key, m) ==
    [opt |-> opt, loader |-> loader, sep |-> sep, layout |-> layout,
     flag |-> flag, key |-> key, m |-> m]

WithEnvLoader(loader) ==
    Option("WithEnvLoader", loader, <<>>, "", FALSE, "nil", NilMarshaller)
WithEnvParseSeparator(sep) ==
    Option("WithEnvParseSeparator", NilLoader, sep, "", FALSE, "nil", NilMarshaller)
WithFallbackToDefaultOnError(fallback) ==
    Option("WithFallbackToDefaultOnError", NilLoader, <<>>, "", fallback, "nil", NilMarshaller)
WithTimeLayout(layout) ==
    Option("WithTimeLayout", NilLoader, <<>>, layout, FALSE, "nil", NilMarshaller)
WithSensitive(sensitive) ==
    Option("WithSensitive", NilLoader, <<>>, "", sensitive, "nil", NilMarshaller)
WithCustomMarshaller(T, marshaller) ==
    Option("WithCustomMarshaller", NilLoader, <<>>, "", FALSE, T, marshaller)
WithCustomMarshallerFunc(T, marshallerFunc) ==
    WithCustomMarshaller(T, CustomMarshallerFunc(T, marshallerFunc))

\* the state an option works on: the call's option set and the map objects
OptState(o, heap, err) == [o |-> o, heap |-> heap, err |-> err]

\* ApplyOption without the checks for an empty separator and layout
ApplyOptionUnchecked(opt, o, heap) ==
    CASE opt.opt = "WithEnvLoader" ->
            IF opt.loader.kind = "nil"
            THEN OptState(o, heap, "env loader function cannot be nil")
            ELSE OptState([o EXCEPT !.envLoader = opt.loader], heap, "")
      [] opt.opt = "WithEnvParseSeparator" ->
            OptState([o EXCEPT !.separator = opt.sep], heap, "")
      [] opt.opt = "WithFallbackToDefaultOnError" ->
            OptState([o EXCEPT !.defaultOnError = opt.flag], heap, "")
      [] opt.opt = "WithTimeLayout" ->
            OptState([o EXCEPT !.timeLayout = opt.layout], heap, "")
      [] opt.opt = "WithSensitive" ->
            OptState([o EXCEPT !.sensitive = opt.flag], heap, "")
      [] opt.opt = "WithCustomMarshaller" ->
            IF opt.m.isNil
            THEN OptState(o, heap, "custom marshaller cannot be nil")
            ELSE LET made == o.customMarshallers = "nil"
                     ref  == IF made THEN "local" ELSE o.customMarshallers
                     old  == IF made THEN EmptyRegistry ELSE heap[ref]
                 IN  OptState([o EXCEPT !.customMarshallers = ref],
                              [heap EXCEPT ![ref] = (TypeOf(opt.key) :> opt.m) @@ old],
                              "")

\* the body of the closure each constructor returns: err = "" is nil
ApplyOption(opt, o, heap) ==
    CASE opt.opt = "WithEnvLoader" ->
            IF opt.loader.kind = "nil"
            THEN OptState(o, heap, "env loader function cannot be nil")
            ELSE OptState([o EXCEPT !.envLoader = opt.loader], heap, "")
      [] opt.opt = "WithEnvParseSeparator" ->
            IF opt.sep = <<>>
            THEN OptState(o, heap, "separator cannot be empty string")
            ELSE OptState([o EXCEPT !.separator = opt.sep], heap, "")
      [] opt.opt = "WithFallbackToDefaultOnError" ->
            OptState([o EXCEPT !.defaultOnError = opt.flag], heap, "")
      [] opt.opt = "WithTimeLayout" ->
            IF opt.layout = ""
            THEN OptState(o, heap, "time layout cannot be empty string")
            ELSE OptState([o EXCEPT !.timeLayout = opt.layout], heap, "")
      [] opt.opt = "WithSensitive" ->
            OptState([o EXCEPT !.sensitive = opt.flag], heap, "")
      [] opt.opt = "WithCustomMarshaller" ->
            IF opt.m.isNil
            THEN OptState(o, heap, "custom marshaller cannot be nil")
            ELSE LET made == o.customMarshallers = "nil"
                     ref  == IF made THEN "local" ELSE o.customMarshallers
                     old  == IF made THEN EmptyRegistry ELSE heap[ref]
                 IN  OptState([o EXCEPT !.customMarshallers = ref],
                              [heap EXCEPT ![ref] = (TypeOf(opt.key) :> opt.m) @@ old],
                              "")

----------------------------------------------------------------------------
(* the parse engine *)

\* the cause of a conversion failure; for an element of a sequence, the
\* text of "item %s (pos: %d) failed to parse: %w"
NoCause == [cause |-> "", item |-> <<>>, pos |-> -1]
Cause(cause) == [cause |-> cause, item |-> <<>>, pos |-> -1]
ItemCause(cause, item, pos) == [cause |-> cause, item |-> item, pos |-> pos]

\* an error value: what its message is made of; kind "nil" is the nil error
NilError ==
    [kind |-> "nil", envVar |-> <<>>, type |-> "nil",
     cause |-> "", item |-> <<>>, pos |-> -1]
Error(kind, envVar, T, c) ==
    [kind |-> kind, envVar |-> envVar, type |-> T,
     cause |-> c.cause, item |-> c.item, pos |-> c.pos]

Ev(e, arg) == [ev |-> e, arg |-> arg]

splitAndTrim(in, sep) ==
    LET strs == Split(in, sep)
    IN  [i \in 1..Len(strs) |-> TrimSpace(strs[i])]

\* ConvertElem parsing a timestamp with time.RFC3339 whatever the layout
ConvertElemFixedLayout(E, at, layout) ==
    CASE E = "bool" -> ParseBool(at)
      [] E = "int" -> Atoi(at)
      [] E = "uint" -> ParseUint(at)
      [] E = "int64" -> ParseInt(at)
      [] E = "uint64" -> ParseUint(at)
      [] E = "float64" -> ParseFloat(at)
      [] E = "time.Duration" -> ParseDuration(at)
      [] E = "time.Time" -> TimeParse(RFC3339, at)
      [] E = "url.URL" -> UrlParse(at)

\* the conversion the type switch applies to one string of element type E
ConvertElem(E, at, layout) ==
    CASE E = "bool" -> ParseBool(at)
      [] E = "int" -> Atoi(at)
      [] E = "uint" -> ParseUint(at)
      [] E = "int64" -> ParseInt(at)
      [] E = "uint64" -> ParseUint(at)
      [] E = "float64" -> ParseFloat(at)
      [] E = "time.Duration" -> ParseDuration(at)
      [] E = "time.Time" -> TimeParse(layout, at)
      [] E = "url.URL" -> UrlParse(at)

\* the loop of a sequence case: items[i..] are still to convert, vs holds
\* the converted ones; stops at the first failure
RECURSIVE ParseItems(_, _, _, _, _, _)

\* ItemParsed going on after a failure, so that the error of the last
\* failing item is the one reported
ItemParsedReportsLast(E, items, i, layout, vs, tr, parsed) ==
    IF parsed.ok
    THEN ParseItems(E, items, i + 1, layout, Append(vs, parsed.val), tr)
    ELSE IF ParseItems(E, items, i + 1, layout, vs, tr).err.cause # ""
    THEN ParseItems(E, items, i + 1, layout, vs, tr)
    ELSE [vs |-> vs, err |-> ItemCause(parsed.cause, items[i], i - 1),
          trace |-> tr]

\* the body of the loop once items[i] has been converted to parsed
ItemParsed(E, items, i, layout, vs, tr, parsed) ==
    IF ~parsed.ok
    THEN [vs |-> vs, err |-> ItemCause(parsed.cause, items[i], i - 1),
          trace |-> tr]
    ELSE ParseItems(E, items, i + 1, layout, Append(vs, parsed.val), tr)

ParseItems(E, items, i, layout, vs, tr) ==
    IF i > Len(items) THEN [vs |-> vs, err |-> NoCause, trace |-> tr]
    ELSE ItemParsed(E, items, i, layout, vs,
                    Append(tr, Ev("convert", items[i])),
                    ConvertElem(E, items[i], layout))

\* the outcome of the type switch; the trace starts with the switch itself
Dispatch(T, supported, v, err, tr) ==
    [supported |-> supported, v |-> v, err |-> err,
     trace |-> <<Ev("switch", <<T>>)>> \o tr]

\* a scalar case: v, err = the conversion of envStr; v has dynamic type dyn
ScalarCase(T, dyn, envStr, parsed) ==
    Dispatch(T, TRUE, Iface(dyn, parsed.val), Cause(parsed.cause),
             <<Ev("convert", envStr)>>)

\* a sequence case: v = vs after the loop, err = what the loop left
SliceCase(T, loop) ==
    Dispatch(T, TRUE, Iface(T, Slice(loop.vs)), loop.err, loop.trace)

\* the type switch on dest: the interface value v and the error it leaves
Builtin(T, envStr, parseOpts) ==
    IF T = "string"
    THEN Dispatch(T, TRUE, Iface("string", envStr), NoCause, <<>>)
    ELSE IF T = "url.URL"
    THEN ScalarCase(T, "*url.URL", envStr, UrlParse(envStr))
    ELSE IF T \in ScalarTypes
    THEN ScalarCase(T, T, envStr,
                    ConvertElem(T, envStr, parseOpts.timeLayout))
    ELSE IF T = "[]string"
    THEN Dispatch(T, TRUE,
                  Iface(T, Slice(Split(envStr, parseOpts.separator))),
                  NoCause, <<>>)
    ELSE IF T \in SliceTypes
    THEN SliceCase(T, ParseItems(ElemType(T),
                                 splitAndTrim(envStr, parseOpts.separator),
                                 1, parseOpts.timeLayout, <<>>, <<>>))
    ELSE Dispatch(T, FALSE, Iface("nil", FALSE), NoCause, <<>>)

\* HasMarshaller consulting the registry only for types without a case of
\* the type switch
HasMarshallerUnlessBuiltin(registry, destType) ==
    destType \in DOMAIN registry /\ destType \notin BuiltinTypes

\* marshaller, exists := parseOpts.customMarshallers[destType]
HasMarshaller(registry, destType) == destType \in DOMAIN registry


\* CloneOptions without the copy: the call's option set still refers to the
\* package-level map
CloneOptionsShared(base, heap) == OptState(base, heap, "")

\* parseOpts := defaultParseOptions, then the copy of the marshaller map
CloneOptions(base, heap) ==
    IF base.customMarshallers # "nil"
    THEN OptState([base EXCEPT !.customMarshallers = "local"],
                  [heap EXCEPT !.local = heap[base.customMarshallers]], "")
    ELSE OptState(base, heap, "")

\* ApplyOptions keeping only the error of the last option
RECURSIVE ApplyOptionsLastError(_, _, _)
ApplyOptionsLastError(opts, o, heap) ==
    IF opts = <<>> THEN OptState(o, heap, "")
    ELSE LET r == ApplyOption(Head(opts), o, heap)
         IN  IF Len(opts) = 1 THEN r
             ELSE ApplyOptionsLastError(Tail(opts), r.o, r.heap)

\* ApplyOptions running the options from the last to the first
RECURSIVE ApplyOptionsRightToLeft(_, _, _)
ApplyOptionsRightToLeft(opts, o, heap) ==
    IF opts = <<>> THEN OptState(o, heap, "")
    ELSE LET r == ApplyOption(opts[Len(opts)], o, heap)
         IN  IF r.err # "" THEN r
             ELSE ApplyOptionsRightToLeft(SubSeq(opts, 1, Len(opts) - 1),
                                          r.o, r.heap)

\* the loop over opts: stops at the first option that fails
RECURSIVE ApplyOptions(_, _, _)
ApplyOptions(opts, o, heap) ==
    IF opts = <<>> THEN OptState(o, heap, "")
    ELSE LET r == ApplyOption(Head(opts), o, heap)
         IN  IF r.err # "" THEN r
             ELSE ApplyOptions(Tail(opts), r.o, r.heap)

\* Load reading the process environment whatever loader is configured
LoadProcessEnv(loader, envVar, environ) == environ[envVar]

\* parseOpts.envLoader(envVar)
Load(loader, envVar, environ) ==
    IF loader.kind = "os.Getenv" THEN environ[envVar] ELSE loader.env[envVar]

Result(val, err, tr, heap) ==
    [val |-> val, err |-> err, trace |-> tr, global |-> heap.global,
     panicked |-> FALSE]

\* the call does not return: a panic unwinds it
Panic(T, tr, heap) ==
    [val |-> Zero(T), err |-> NilError, trace |-> tr, global |-> heap.global,
     panicked |-> TRUE]

\* OnError returning the error whatever the fallback flag is
OnErrorIgnoresFlag(T, defaultVal, parseOpts, err, tr, heap) ==
    Result(Zero(T), err, tr, heap)

\* what a failed conversion returns
OnError(T, defaultVal, parseOpts, err, tr, heap) ==
    IF parseOpts.defaultOnError
    THEN Result(defaultVal, NilError, tr, heap)
    ELSE Result(Zero(T), err, tr, heap)

\* Cast taking the value out of v whatever its dynamic type is
CastUnchecked(T, envVar, v, tr, heap) ==
    Result(Val(T, IF T \in InterfaceTypes THEN v ELSE v.val), NilError, tr, heap)

\* dest, ok := v.(T)
Cast(T, envVar, v, tr, heap) ==
    IF T \in InterfaceTypes /\ Implements(v.dyn, T)
    THEN Result(Val(T, v), NilError, tr, heap)
    ELSE IF v.dyn = T
    THEN Result(Val(T, v.val), NilError, tr, heap)
    ELSE Result(Zero(T), Error("cast", envVar, T, NoCause), tr, heap)

\* the map parseOpts.customMarshallers refers to
Registry(parseOpts, heap) ==
    IF parseOpts.customMarshallers = "nil" THEN EmptyRegistry
    ELSE heap[parseOpts.customMarshallers]

\* the branch of a registered marshaller, custom being what it returned
FromMarshaller(T, envVar, defaultVal, parseOpts, heap, custom) ==
    IF custom.panicked
    THEN Panic(T, <<Ev("load", envVar), Ev("marshal", <<TypeOf(T)>>)>>, heap)
    ELSE IF custom.cause # ""
    THEN OnError(T, defaultVal, parseOpts,
                 Error("custom", envVar, T, Cause(custom.cause)),
                 <<Ev("load", envVar), Ev("marshal", <<TypeOf(T)>>)>>, heap)
    ELSE Cast(T, envVar, custom.v,
              <<Ev("load", envVar), Ev("marshal", <<TypeOf(T)>>)>>, heap)

\* FromSwitch returning what the switch left in v together with the error
FromSwitchKeepsParsed(T, envVar, defaultVal, parseOpts, heap, builtin) ==
    IF ~builtin.supported
    THEN Result(Zero(T), Error("unsupported", envVar, T, NoCause),
                <<Ev("load", envVar)>> \o builtin.trace, heap)
    ELSE IF builtin.err.cause # "" /\ parseOpts.defaultOnError
    THEN Result(defaultVal, NilError,
                <<Ev("load", envVar)>> \o builtin.trace, heap)
    ELSE IF builtin.err.cause # ""
    THEN Result(Val(T, builtin.v.val),
                Error("parse", envVar, T, builtin.err),
                <<Ev("load", envVar)>> \o builtin.trace, heap)
    ELSE Cast(T, envVar, builtin.v,
              <<Ev("load", envVar)>> \o builtin.trace, heap)

\* FromSwitch treating a type without a case as a failed conversion
FromSwitchUnsupportedAsFailure(T, envVar, defaultVal, parseOpts, heap, builtin) ==
    IF ~builtin.supported
    THEN OnError(T, defaultVal, parseOpts,
                 Error("unsupported", envVar, T, NoCause),
                 <<Ev("load", envVar)>> \o builtin.trace, heap)
    ELSE IF builtin.err.cause # ""
    THEN OnError(T, defaultVal, parseOpts,
                 Error("parse", envVar, T, builtin.err),
                 <<Ev("load", envVar)>> \o builtin.trace, heap)
    ELSE Cast(T, envVar, builtin.v,
              <<Ev("load", envVar)>> \o builtin.trace, heap)

\* the code after the type switch, builtin being what the switch left
FromSwitch(T, envVar, defaultVal, parseOpts, heap, builtin) ==
    IF ~builtin.supported
    THEN Result(Zero(T), Error("unsupported", envVar, T, NoCause),
                <<Ev("load", envVar)>> \o builtin.trace, heap)
    ELSE IF builtin.err.cause # ""
    THEN OnError(T, defaultVal, parseOpts,
                 Error("parse", envVar, T, builtin.err),
                 <<Ev("load", envVar)>> \o builtin.trace, heap)
    ELSE Cast(T, envVar, builtin.v,
              <<Ev("load", envVar)>> \o builtin.trace, heap)

\* the code after the load, envStr being what the loader returned
Parse(T, envVar, defaultVal, parseOpts, heap, envStr) ==
    IF envStr = <<>>
    THEN Result(defaultVal, NilError, <<Ev("load", envVar)>>, heap)
    ELSE IF HasMarshaller(Registry(parseOpts, heap), TypeOf(T))
    THEN FromMarshaller(T, envVar, defaultVal, parseOpts, heap,
                        UnmarshalEnv(Registry(parseOpts, heap)[TypeOf(T)],
                                     envStr))
    ELSE FromSwitch(T, envVar, defaultVal, parseOpts, heap,
                    Builtin(T, envStr, parseOpts))

\* WithParseOpts calling the loader before it looks at the option error
WithParseOptsLoadsFirst(T, envVar, defaultVal, environ, applied) ==
    IF applied.err # ""
    THEN Result(Zero(T), Error("option", <<>>, "nil", Cause(applied.err)),
                <<Ev("load", envVar)>>, applied.heap)
    ELSE Parse(T, envVar, defaultVal, applied.o, applied.heap,
               Load(applied.o.envLoader, envVar, environ))

\* the code after the loop over opts, applied being what the loop left
WithParseOpts(T, envVar, defaultVal, environ, applied) ==
    IF applied.err # ""
    THEN Result(Zero(T), Error("option", <<>>, "nil", Cause(applied.err)),
                <<>>, applied.heap)
    ELSE Parse(T, envVar, defaultVal, applied.o, applied.heap,
               Load(applied.o.envLoader, envVar, environ))

\* the package state a call starts from
Start ==
    CloneOptions(defaultParseOptions,
                 [global |-> globalMarshallers, local |-> EmptyRegistry])

\* FromEnvOrDefault[T](ctx, envVar, defaultVal, opts...) run on the
\* package state and the process environment environ
FromEnvOrDefault(T, envVar, defaultVal, opts, environ) ==
    WithParseOpts(T, envVar, defaultVal, environ,
                  ApplyOptions(opts, Start.o, Start.heap))

\* the record MustFromEnvOrDefault logs before os.Exit(1)
LogRecord(envVar, err) ==
    [msg |-> "failed to parse env var", env_var |-> envVar, error |-> err]

----------------------------------------------------------------------------
(* The program: calls of the two entry points, one at a time *)

NoCall ==
    [fn |-> "none", T |-> "nil", envVar |-> <<>>,
     defaultVal |-> Val("nil", FALSE),
     opts |-> <<>>, environ |-> EmptyEnv]

NoReturn == [val |-> Val("nil", FALSE), err |-> NilError]

Goroutines == 1..MaxGoroutines

\* a goroutine that is not in a call; parseOpts is the zero envParseOpts
NoGoroutine ==
    [pc |-> "idle", T |-> "nil", envVar |-> <<>>,
     defaultVal |-> Val("nil", FALSE), opts |-> <<>>, next |-> 1,
     parseOpts |-> EnvParseOpts(NilLoader, <<>>, FALSE, "", FALSE, "nil"),
     local |-> EmptyRegistry, err |-> "", ret |-> NoReturn, trace |-> <<>>]

Init ==
    /\ defaultParseOptions =
          EnvParseOpts(OsGetenv, <<",">>, FALSE, RFC3339, FALSE, "global")
    /\ globalMarshallers = EmptyRegistry
    /\ pc = "idle"
    /\ call = NoCall
    /\ ret = NoReturn
    /\ trace = <<>>
    /\ log = <<>>
    /\ exitCode = 0
    /\ goroutines = [g \in Goroutines |-> NoGoroutine]

\* Completes with a MustFromEnvOrDefault that logs the error and returns
\* the zero value instead of ending the process
CompletesLogsAndReturns(fn, T, envVar, defaultVal, opts, environ, r) ==
    /\ call' = [fn |-> fn, T |-> T, envVar |-> envVar,
                defaultVal |-> defaultVal, opts |-> opts, environ |-> environ]
    /\ trace' = r.trace
    /\ globalMarshallers' = r.global
    /\ log' = IF fn = "MustFromEnvOrDefault" /\ r.err.kind # "nil"
              THEN Append(log, LogRecord(envVar, r.err)) ELSE log
    /\ pc' = "returned"
    /\ ret' = [val |-> r.val, err |-> r.err]
    /\ UNCHANGED <<defaultParseOptions, exitCode, goroutines>>

\* what a call leaves behind, r being what FromEnvOrDefault returned; only
\* MustFromEnvOrDefault logs an error and ends the process; a panic that
\* nothing recovers ends the process with status 2
Completes(fn, T, envVar, defaultVal, opts, environ, r) ==
    /\ call' = [fn |-> fn, T |-> T, envVar |-> envVar,
                defaultVal |-> defaultVal, opts |-> opts, environ |-> environ]
    /\ trace' = r.trace
    /\ globalMarshallers' = r.global
    /\ IF r.panicked
       THEN /\ log' = log
            /\ pc' = "panicked"
            /\ exitCode' = 2
            /\ ret' = NoReturn
       ELSE IF fn = "MustFromEnvOrDefault" /\ r.err.kind # "nil"
       THEN /\ log' = Append(log, LogRecord(envVar, r.err))
            /\ pc' = "exited"
            /\ exitCode' = 1
            /\ ret' = NoReturn
       ELSE /\ log' = log
            /\ pc' = "returned"
            /\ exitCode' = exitCode
            /\ ret' = [val |-> r.val, err |-> r.err]
    /\ UNCHANGED <<defaultParseOptions, goroutines>>

\* a call of FromEnvOrDefault[T] runs to its return
CallFromEnvOrDefault(T, envVar, defaultVal, opts, environ) ==
    Completes("FromEnvOrDefault", T, envVar, defaultVal, opts, environ,
              FromEnvOrDefault(T, envVar, defaultVal, opts, environ))

\* a call of MustFromEnvOrDefault[T] runs to its return, or logs and
\* ends the process
CallMustFromEnvOrDefault(T, envVar, defaultVal, opts, environ) ==
    Completes("MustFromEnvOrDefault", T, envVar, defaultVal, opts, environ,
              FromEnvOrDefault(T, envVar, defaultVal, opts, environ))

\* the caller takes the result; the next call can start
Return ==
    /\ pc = "returned"
    /\ pc' = "idle"
    /\ call' = NoCall
    /\ ret' = NoReturn
    /\ trace' = <<>>
    /\ UNCHANGED <<defaultParseOptions, globalMarshallers, log, exitCode,
                   goroutines>>

----------------------------------------------------------------------------
(* Inputs of Spec: every option list, a few raw values *)

\* the raw values the process environment holds under "A": nothing, a
\* number, a word, a duration, a timestamp in two layouts, a list
RawValues ==
    {<<>>, <<"1">>, <<"a">>, <<"1", "s">>, TSChars, TS1123Chars,
     <<"1", ",", "a">>}

\* the process environment: raw under "A", something else under "B"
Environ(raw) == [n \in Names |-> IF n = <<"A">> THEN raw ELSE <<"b">>]

\* the map behind a loader of the caller's: under "A" it holds a value
\* exactly when the process environment holds none
Swapped(raw) ==
    [n \in Names |->
        IF n = <<"B">> THEN <<"b">>
        ELSE IF raw = <<>> THEN <<"1">> ELSE <<>>]

OtherType(T) == IF T = "Config" THEN "int" ELSE "Config"

Options(T, raw) ==
    {WithEnvLoader(NilLoader), WithEnvLoader(MapLoader(Swapped(raw))),
     WithEnvParseSeparator(<<>>), WithEnvParseSeparator(<<";">>),
     WithEnvParseSeparator(<<",">>),
     WithFallbackToDefaultOnError(TRUE), WithFallbackToDefaultOnError(FALSE),
     WithTimeLayout(""), WithTimeLayout(RFC1123), WithTimeLayout(RFC3339),
     WithSensitive(TRUE),
     WithCustomMarshaller(T, NilMarshaller),
     WithCustomMarshaller(T, Marshaller(T)),
     WithCustomMarshaller(T, FailingMarshaller),
     WithCustomMarshaller(T, Marshaller(OtherType(T))),
     WithCustomMarshaller(OtherType(T), Marshaller(OtherType(T)))}

OptionLists(T, raw, max) ==
    UNION {[1..n -> Options(T, raw)] : n \in 0..max}

Next ==
    \/ /\ pc = "idle"
       /\ \E T \in Types, raw \in RawValues :
            \E opts \in OptionLists(T, raw, MaxOpts) :
               CallFromEnvOrDefault(T, <<"A">>, DefaultVal(T), opts, Environ(raw))
    \/ /\ pc = "idle"
       /\ \E T \in Types, raw \in RawValues :
            \E opts \in OptionLists(T, raw, MaxMustOpts) :
               CallMustFromEnvOrDefault(T, <<"A">>, DefaultVal(T), opts, Environ(raw))
    \/ Return

Spec == Init /\ [][Next]_vars

----------------------------------------------------------------------------
(* Inputs of SpecValues: long raw values of built-in types, read from the
   process environment under a separator and a fallback flag *)

ValueSymbols(T) ==
    {<<"1">>, <<",">>, <<";">>, <<" ">>} \cup
    (CASE T \in {"string", "[]string"} -> {<<"a">>, <<"b">>}
       [] T \in {"bool", "[]bool"} -> {<<"0">>, <<"a">>}
       [] T \in {"time.Duration", "[]time.Duration"} -> {<<"s">>, <<"a">>}
       [] T \in {"time.Time", "[]time.Time", "url.URL", "[]url.URL"} ->
            {TSChars, <<"a">>}
       [] OTHER -> {<<"-">>, <<"a">>})

\* raw values of the tests: "true, true,false", "32,-2,abcd", "63, 52,-8",
\* "a,b,c", "a;b;c" and "a, b"
TestValues ==
    {<<"t", "r", "u", "e", ",", " ", "t", "r", "u", "e", ",",
       "f", "a", "l", "s", "e">>,
     <<"3", "2", ",", "-", "2", ",", "a", "b", "c", "d">>,
     <<"6", "3", ",", " ", "5", "2", ",", "-", "8">>,
     <<"a", ",", "b", ",", "c">>,
     <<"a", ";", "b", ";", "c">>,
     <<"a", ",", " ", "b">>}

LongValues(T) ==
    TestValues \cup
    {Flatten(w) : w \in Words({<<s>> : s \in ValueSymbols(T)}, MaxValLen)}

ValueOptionLists ==
    {<<>>,
     <<WithFallbackToDefaultOnError(TRUE)>>,
     <<WithEnvParseSeparator(<<";">>)>>,
     <<WithEnvParseSeparator(<<",", ",">>)>>}

NextValues ==
    \/ /\ pc = "idle"
       /\ \E T \in BuiltinTypes, opts \in ValueOptionLists :
            \E raw \in LongValues(T) :
               CallFromEnvOrDefault(T, <<"A">>, DefaultVal(T), opts, Environ(raw))
    \/ Return

SpecValues == Init /\ [][NextValues]_vars

----------------------------------------------------------------------------
(* Concurrent calls: each goroutine runs FromEnvOrDefault one statement
   group at a time (the copy of the package option set, one option of the
   loop, the load and the conversion), interleaved with the others.  The
   package-level option set, its map and the process environment are what
   the goroutines share. *)

\* the process environment of the concurrent calls
ConcurrentEnviron == Environ(<<"1", ",", "a">>)

\* the calls a goroutine makes: a target type and the options, which
\* differ in separator, fallback flag, loader, layout and marshallers
ConcurrentCalls ==
    {<<"[]int", <<>>>>,
     <<"[]int", <<WithEnvParseSeparator(<<";">>)>>>>,
     <<"[]int", <<WithFallbackToDefaultOnError(TRUE)>>>>,
     <<"[]int", <<WithEnvLoader(MapLoader(Swapped(<<>>))),
                  WithCustomMarshaller("[]int", Marshaller("[]int"))>>>>,
     <<"int", <<WithCustomMarshaller("int", FailingMarshaller),
                WithFallbackToDefaultOnError(TRUE)>>>>,
     <<"int", <<WithCustomMarshaller("Config", Marshaller("Config")),
                WithEnvLoader(MapLoader(Swapped(<<>>)))>>>>,
     <<"[]time.Time", <<WithTimeLayout(RFC1123),
                        WithEnvParseSeparator(<<";">>)>>>>,
     <<"[]int", <<WithEnvParseSeparator(<<>>),
                  WithFallbackToDefaultOnError(TRUE)>>>>,
     <<"time.Time", <<WithSensitive(TRUE), WithTimeLayout("")>>>>}

\* the map objects goroutine g can reach: the package-level one and its own
GoHeap(g) == [global |-> globalMarshallers, local |-> goroutines[g].local]

\* goroutine g moves on with the option state s
Stepped(g, s, next) ==
    /\ goroutines' =
          [goroutines EXCEPT
              ![g] = [@ EXCEPT !.pc = "options", !.parseOpts = s.o,
                               !.local = s.heap.local, !.err = s.err,
                               !.next = next]]
    /\ globalMarshallers' = s.heap.global
    /\ UNCHANGED <<defaultParseOptions, pc, call, ret, trace, log, exitCode>>

\* goroutine g has r to return
Finished(g, r) ==
    /\ goroutines' =
          [goroutines EXCEPT
              ![g] = [@ EXCEPT !.pc = "done", !.trace = r.trace,
                               !.ret = [val |-> r.val, err |-> r.err]]]
    /\ globalMarshallers' = r.global
    /\ UNCHANGED <<defaultParseOptions, pc, call, ret, trace, log, exitCode>>

\* go FromEnvOrDefault[T](ctx, envVar, defaultVal, opts...)
GoCall(g, T, envVar, defaultVal, opts) ==
    /\ goroutines[g].pc = "idle"
    /\ goroutines' =
          [goroutines EXCEPT
              ![g] = [NoGoroutine EXCEPT
                         !.pc = "called", !.T = T, !.envVar = envVar,
                         !.defaultVal = defaultVal, !.opts = opts]]
    /\ UNCHANGED <<defaultParseOptions, globalMarshallers, pc, call, ret,
                   trace, log, exitCode>>

\* parseOpts := defaultParseOptions and the copy of the marshaller map
GoClone(g) ==
    /\ goroutines[g].pc = "called"
    /\ Stepped(g, CloneOptions(defaultParseOptions,
                               [global |-> globalMarshallers,
                                local |-> EmptyRegistry]), 1)

\* one iteration of the loop over opts
GoApplyOption(g) ==
    /\ goroutines[g].pc = "options"
    /\ goroutines[g].err = ""
    /\ goroutines[g].next <= Len(goroutines[g].opts)
    /\ Stepped(g, ApplyOption(goroutines[g].opts[goroutines[g].next],
                              goroutines[g].parseOpts, GoHeap(g)),
               goroutines[g].next + 1)

\* the rest of the call once the loop has ended: the early return of an
\* option error, or the load and the conversion
GoParse(g) ==
    /\ goroutines[g].pc = "options"
    /\ goroutines[g].err # "" \/ goroutines[g].next > Len(goroutines[g].opts)
    /\ Finished(g, WithParseOpts(goroutines[g].T, goroutines[g].envVar,
                                 goroutines[g].defaultVal, ConcurrentEnviron,
                                 OptState(goroutines[g].parseOpts, GoHeap(g),
                                          goroutines[g].err)))

\* the caller takes the result; the goroutine can call again
GoReturn(g) ==
    /\ goroutines[g].pc = "done"
    /\ goroutines' = [goroutines EXCEPT ![g] = NoGoroutine]
    /\ UNCHANGED <<defaultParseOptions, globalMarshallers, pc, call, ret,
                   trace, log, exitCode>>

NextConcurrent ==
    \/ \E g \in Goroutines, c \in ConcurrentCalls :
          GoCall(g, c[1], <<"A">>, DefaultVal(c[1]), c[2])
    \/ \E g \in Goroutines : GoClone(g)
    \/ \E g \in Goroutines : GoApplyOption(g)
    \/ \E g \in Goroutines : GoParse(g)
    \/ \E g \in Goroutines : GoReturn(g)

SpecConcurrent == Init /\ [][NextConcurrent]_vars

----------------------------------------------------------------------------
(* Inputs of SpecMarshallers: marshallers of every kind, registered as
   objects or as conversion functions, for the target type, for another
   concrete type and for an interface type *)

MarshallerTypes == {"int", "[]int", "Config", "fmt.Stringer"}

MarshallerOptions(T) ==
    {WithCustomMarshaller(T, NilMarshaller),
     WithCustomMarshaller(T, Marshaller(DynamicType(T))),
     WithCustomMarshaller("error", Marshaller(DynamicType(T))),
     WithCustomMarshaller(T, Marshaller(OtherType(T))),
     WithCustomMarshaller(T, Marshaller("nil")),
     WithCustomMarshaller(T, FailingMarshaller),
     WithCustomMarshallerFunc(T, NilFunc),
     WithCustomMarshallerFunc(T, Func),
     WithCustomMarshallerFunc(T, FailingFunc),
     WithCustomMarshaller(OtherType(T), Marshaller(OtherType(T))),
     WithCustomMarshaller(OtherType(T), FailingMarshaller),
     WithFallbackToDefaultOnError(TRUE)}

MarshallerOptionLists(T) ==
    UNION {[1..n -> MarshallerOptions(T)] : n \in 0..MaxOpts}

NextMarshallers ==
    \/ /\ pc = "idle"
       /\ \E T \in MarshallerTypes, raw \in {<<>>, <<"1">>} :
            \E opts \in MarshallerOptionLists(T) :
               CallFromEnvOrDefault(T, <<"A">>, DefaultVal(T), opts, Environ(raw))
    \/ Return

SpecMarshallers == Init /\ [][NextMarshallers]_vars

----------------------------------------------------------------------------
(* Inputs of SpecNumbers: numerals at the ends of the 64-bit ranges, read
   as the integer types and the sequences of them *)

IntegerTypes ==
    {"int", "uint", "int64", "uint64", "[]int", "[]uint", "[]int64", "[]uint64"}

\* 1<<63 + 1 and 1<<64
PastMinInt64Mag ==
    <<"9", "2", "2", "3", "3", "7", "2", "0", "3", "6",
      "8", "5", "4", "7", "7", "5", "8", "0", "9">>
PastMaxUint64 ==
    <<"1", "8", "4", "4", "6", "7", "4", "4", "0", "7",
      "3", "7", "0", "9", "5", "5", "1", "6", "1", "6">>

RangeValues ==
    {<<"0">>, <<"1", "2", "3">>, <<"-", "1">>, <<"-", "0">>, <<"0", "0", "7">>,
     MaxInt64, MinInt64Mag, <<"-">> \o MinInt64Mag, <<"-">> \o PastMinInt64Mag,
     MaxUint64, PastMaxUint64, <<"0">> \o MaxUint64,
     <<"1", ",">> \o MaxInt64, <<"1", ",">> \o PastMaxUint64,
     <<"-", "1", ",", "1">>}

NextNumbers ==
    \/ /\ pc = "idle"
       /\ \E T \in IntegerTypes, raw \in RangeValues :
            \E opts \in {<<>>, <<WithFallbackToDefaultOnError(TRUE)>>} :
               CallFromEnvOrDefault(T, <<"A">>, DefaultVal(T), opts, Environ(raw))
    \/ Return

SpecNumbers == Init /\ [][NextNumbers]_vars

----------------------------------------------------------------------------
(* The context-free variant of the parser: no context, no loader, no
   marshallers. Its option set has the two fields separator and
   defaultOnError, held here in the fields of these names of
   defaultParseOptions; its options return no error. *)

\* the types of the constraint Parseable
Parseable ==
    {"string", "bool", "int", "uint", "int64", "uint64", "float64",
     "time.Duration", "[]string", "[]bool", "[]int", "[]uint", "[]int64",
     "[]uint64", "[]float64"}

\* for _, opt := range opts { opt(parseOpts) }: each option assigns its
\* field of the option set o
RECURSIVE ApplyLegacyOptions(_, _)
ApplyLegacyOptions(opts, o) ==
    IF opts = <<>> THEN o
    ELSE ApplyLegacyOptions(
            Tail(opts),
            IF Head(opts).opt = "WithEnvParseSeparator"
            THEN [o EXCEPT !.separator = Head(opts).sep]
            ELSE [o EXCEPT !.defaultOnError = Head(opts).flag])

\* the loop of a sequence case: it ranges over the pieces of envStr, and
\* converts the piece for []bool and the whole of envStr for the numeric
\* element types; the error names the piece and its position
RECURSIVE LegacyParseItems(_, _, _, _, _)
LegacyParseItems(E, items, i, envStr, vs) ==
    IF i > Len(items) THEN [vs |-> vs, err |-> NoCause]
    ELSE IF ~ConvertElem(E, IF E = "bool" THEN items[i] ELSE envStr, "").ok
    THEN [vs |-> vs,
          err |-> ItemCause(
                     ConvertElem(E, IF E = "bool" THEN items[i] ELSE envStr,
                                 "").cause,
                     items[i], i - 1)]
    ELSE LegacyParseItems(
            E, items, i + 1, envStr,
            Append(vs, ConvertElem(E, IF E = "bool" THEN items[i] ELSE envStr,
                                   "").val))

\* the type switch on dest: the interface value v and the error it leaves;
\* the bool case converts the name of the variable
LegacySwitch(T, envVar, envStr, parseOpts) ==
    IF T = "string" THEN [v |-> Iface(T, envStr), err |-> NoCause]
    ELSE IF T = "bool"
    THEN [v |-> Iface(T, ParseBool(envVar).val),
          err |-> Cause(ParseBool(envVar).cause)]
    ELSE IF T \in ScalarTypes
    THEN [v |-> Iface(T, ConvertElem(T, envStr, "").val),
          err |-> Cause(ConvertElem(T, envStr, "").cause)]
    ELSE IF T = "[]string"
    THEN [v |-> Iface(T, Slice(Split(envStr, parseOpts.separator))),
          err |-> NoCause]
    ELSE [v |-> Iface(T, Slice(LegacyParseItems(
                                  ElemType(T),
                                  Split(envStr, parseOpts.separator), 1,
                                  envStr, <<>>).vs)),
          err |-> LegacyParseItems(ElemType(T),
                                   Split(envStr, parseOpts.separator), 1,
                                   envStr, <<>>).err]

\* FromEnvOrDefault[T](envVar, defaultVal, opts...) of the variant, run on
\* the package-level option set o: what it returns and the option set it
\* leaves. parseOpts is a pointer to the package-level variable, so the
\* options assign to that; an empty variable returns before they run.
LegacyFromEnvOrDefault(T, envVar, defaultVal, opts, environ, o) ==
    IF environ[envVar] = <<>>
    THEN [val |-> defaultVal, err |-> NilError, o |-> o]
    ELSE IF LegacySwitch(T, envVar, environ[envVar],
                         ApplyLegacyOptions(opts, o)).err.cause # ""
    THEN IF ApplyLegacyOptions(opts, o).defaultOnError
         THEN [val |-> defaultVal, err |-> NilError,
               o |-> ApplyLegacyOptions(opts, o)]
         ELSE [val |-> Zero(T),
               err |-> Error("parse", envVar, T,
                             LegacySwitch(T, envVar, environ[envVar],
                                          ApplyLegacyOptions(opts, o)).err),
               o |-> ApplyLegacyOptions(opts, o)]
    ELSE IF LegacySwitch(T, envVar, environ[envVar],
                         ApplyLegacyOptions(opts, o)).v.dyn # T
    THEN [val |-> Zero(T), err |-> Error("cast", envVar, T, NoCause),
          o |-> ApplyLegacyOptions(opts, o)]
    ELSE [val |-> Val(T, LegacySwitch(T, envVar, environ[envVar],
                                      ApplyLegacyOptions(opts, o)).v.val),
          err |-> NilError, o |-> ApplyLegacyOptions(opts, o)]

\* a call of the variant runs to its return; MustFromEnvOrDefault hands an
\* error to log.Fatal, which logs it and ends the process
CallLegacy(fn, T, envVar, defaultVal, opts, environ, r) ==
    /\ call' = [fn |-> fn, T |-> T, envVar |-> envVar,
                defaultVal |-> defaultVal, opts |-> opts, environ |-> environ]
    /\ defaultParseOptions' = r.o
    /\ IF fn = "MustFromEnvOrDefault" /\ r.err.kind # "nil"
       THEN /\ log' = Append(log, [msg |-> "", env_var |-> <<>>,
                                   error |-> r.err])
            /\ pc' = "exited"
            /\ exitCode' = 1
            /\ ret' = NoReturn
       ELSE /\ log' = log
            /\ pc' = "returned"
            /\ exitCode' = exitCode
            /\ ret' = [val |-> r.val, err |-> r.err]
    /\ UNCHANGED <<globalMarshallers, trace, goroutines>>

\* the option lists of the variant: separators, the empty one among them,
\* and the fallback flag
LegacyOptionLists ==
    UNION {[1..n -> {WithEnvParseSeparator(<<";">>),
                     WithEnvParseSeparator(<<>>),
                     WithFallbackToDefaultOnError(TRUE),
                     WithFallbackToDefaultOnError(FALSE)}] : n \in 0..MaxOpts}

\* the process environment holds the same value under a variable whose
\* name is no boolean and under one whose name is: nothing, boolean and
\* number, a word, and lists with either separator
NextLegacy ==
    \/ /\ pc = "idle"
       /\ \E T \in Parseable, envVar \in {<<"A">>, <<"T">>} :
            \E raw \in {<<>>, <<"1">>, <<"0">>, <<"a">>, <<"1", ",", "2">>,
                         <<"1", ";", "2">>} :
               \E opts \in LegacyOptionLists,
                  fn \in {"FromEnvOrDefault", "MustFromEnvOrDefault"} :
                  CallLegacy(fn, T, envVar, DefaultVal(T), opts,
                             [n \in {<<"A">>, <<"T">>} |-> raw],
                             LegacyFromEnvOrDefault(
                                T, envVar, DefaultVal(T), opts,
                                [n \in {<<"A">>, <<"T">>} |-> raw],
                                defaultParseOptions))
    \/ Return

SpecLegacy == Init /\ [][NextLegacy]_vars

----------------------------------------------------------------------------
(* What a call was asked to do, read off its arguments *)

Returned == pc = "returned" /\ call.fn = "FromEnvOrDefault"

ValidOption(opt) ==
    /\ opt.opt = "WithEnvLoader" => opt.loader.kind # "nil"
    /\ opt.opt = "WithEnvParseSeparator" => opt.sep # <<>>
    /\ opt.opt = "WithTimeLayout" => opt.layout # ""
    /\ opt.opt = "WithCustomMarshaller" => ~opt.m.isNil

AllValid(opts) == \A i \in 1..Len(opts) : ValidOption(opts[i])

\* the position of the last option made by constructor name, 0 if none
LastOf(opts, name) ==
    LET at == {i \in 1..Len(opts) : opts[i].opt = name}
    IN  IF at = {} THEN 0 ELSE CHOOSE i \in at : \A j \in at : j <= i

EffectiveLoader(opts) ==
    IF LastOf(opts, "WithEnvLoader") = 0 THEN OsGetenv
    ELSE opts[LastOf(opts, "WithEnvLoader")].loader

EffectiveSeparator(opts) ==
    IF LastOf(opts, "WithEnvParseSeparator") = 0 THEN <<",">>
    ELSE opts[LastOf(opts, "WithEnvParseSeparator")].sep

EffectiveFallback(opts) ==
    /\ LastOf(opts, "WithFallbackToDefaultOnError") # 0
    /\ opts[LastOf(opts, "WithFallbackToDefaultOnError")].flag

EffectiveLayout(opts) ==
    IF LastOf(opts, "WithTimeLayout") = 0 THEN RFC3339
    ELSE opts[LastOf(opts, "WithTimeLayout")].layout

\* the positions of the options that register a marshaller for T
RegistrationsFor(opts, T) ==
    {i \in 1..Len(opts) : opts[i].opt = "WithCustomMarshaller" /\ opts[i].key = T}

Registered(opts, T) == RegistrationsFor(opts, T) # {}

EffectiveMarshaller(opts, T) ==
    opts[CHOOSE i \in RegistrationsFor(opts, T) :
            \A j \in RegistrationsFor(opts, T) : j <= i].m

\* the raw string the effective loader holds for the variable of the call
RawOf(c) ==
    IF EffectiveLoader(c.opts).kind = "os.Getenv" THEN c.environ[c.envVar]
    ELSE EffectiveLoader(c.opts).env[c.envVar]

EventsOf(kind) == {i \in 1..Len(trace) : trace[i].ev = kind}

----------------------------------------------------------------------------
(* Properties *)

\* C1: whatever the target type and the (valid) options, a call whose
\* effective loader holds the empty string for the variable returns the
\* supplied default and a nil error.
C1_EmptyYieldsDefault ==
    (Returned /\ AllValid(call.opts) /\ RawOf(call) = <<>>)
        => (ret.val = call.defaultVal /\ ret.err = NilError)

\* a call that found nothing through a loader of its own, although the
\* process environment holds a value, and that registered a marshaller
C1_Witness ==
    /\ Returned /\ AllValid(call.opts) /\ RawOf(call) = <<>>
    /\ call.environ[call.envVar] # <<>>
    /\ Registered(call.opts, call.T)
    /\ ret.val = call.defaultVal

CheckedScalars ==
    {"bool", "int", "uint", "int64", "uint64", "float64",
     "time.Duration", "time.Time"}

Malformed(c) ==
    /\ RawOf(c) # <<>>
    /\ ~ConvertElem(c.T, RawOf(c), EffectiveLayout(c.opts)).ok

\* C2: for the built-in scalar types bool, int, uint, int64, uint64,
\* float64, time.Duration and time.Time, a non-empty raw string that the
\* type's conversion rejects gives an error carrying the conversion's cause
\* when fallback is off, and the default with a nil error when it is on.
C2_MalformedScalar ==
    (/\ Returned /\ AllValid(call.opts)
     /\ call.T \in CheckedScalars /\ ~Registered(call.opts, call.T)
     /\ Malformed(call))
        => IF EffectiveFallback(call.opts)
           THEN ret.val = call.defaultVal /\ ret.err = NilError
           ELSE /\ ret.err.kind = "parse"
                /\ ret.err.cause # ""
                /\ ret.err.cause =
                     ConvertElem(call.T, RawOf(call),
                                 EffectiveLayout(call.opts)).cause

\* "1" read as a duration with fallback off: the unit is missing
C2_Witness ==
    /\ Returned /\ call.T = "time.Duration" /\ Malformed(call)
    /\ ~EffectiveFallback(call.opts)
    /\ RawOf(call) = <<"1">>
    /\ ret.err.cause = ErrMissingUnit

\* C3: a call whose option list holds an option with an invalid argument,
\* at any position, returns an option error and not the default, whatever
\* the fallback flag and the raw value.
C3_InvalidOptionFails ==
    (Returned /\ ~AllValid(call.opts))
        => (ret.err.kind = "option" /\ ret.val # call.defaultVal)

\* fallback switched on first, the invalid option second, a value present
C3_Witness ==
    /\ Returned /\ Len(call.opts) = 2
    /\ call.opts[1] = WithFallbackToDefaultOnError(TRUE)
    /\ ~ValidOption(call.opts[2])
    /\ call.environ[call.envVar] # <<>>
    /\ ret.err.kind = "option"

Unsupported(c) == ~Registered(c.opts, c.T) /\ c.T \notin BuiltinTypes

NotAssignable(c) ==
    /\ Registered(c.opts, c.T)
    /\ ~EffectiveMarshaller(c.opts, c.T).fails
    /\ EffectiveMarshaller(c.opts, c.T).produces # c.T

ConversionFails(c) ==
    /\ ~Registered(c.opts, c.T) /\ c.T \in CheckedScalars /\ Malformed(c)

\* C4: with fallback on and valid options, a failure that is no option
\* error yields the default and a nil error: a conversion that fails, a type
\* with neither a case of the type switch nor a marshaller, and a
\* marshaller that succeeds with a value that is not a T.
C4_FallbackCoversEveryFailure ==
    (/\ Returned /\ AllValid(call.opts) /\ EffectiveFallback(call.opts)
     /\ RawOf(call) # <<>>
     /\ ConversionFails(call) \/ Unsupported(call) \/ NotAssignable(call))
        => (ret.val = call.defaultVal /\ ret.err = NilError)

\* C5: when a marshaller is registered for T and the raw string is not
\* empty, the call invokes the marshaller registered last for T, once, and
\* never the type switch, whether or not T has a case of its own; a value of
\* type T it returns is the result, and its failure is an error with
\* fallback off and the default with a nil error with fallback on.
C5_MarshallerPreferred ==
    (/\ Returned /\ AllValid(call.opts) /\ Registered(call.opts, call.T)
     /\ RawOf(call) # <<>>)
        => /\ trace = <<Ev("load", call.envVar), Ev("marshal", <<call.T>>)>>
           /\ EffectiveMarshaller(call.opts, call.T).produces = call.T
                => /\ ret.err = NilError
                   /\ ret.val = Val(call.T, CustomVal(call.T, RawOf(call)))
           /\ EffectiveMarshaller(call.opts, call.T).fails
                => IF EffectiveFallback(call.opts)
                   THEN ret.val = call.defaultVal /\ ret.err = NilError
                   ELSE /\ ret.err.kind = "custom"
                        /\ ret.err.cause = ErrMarshaller
                        /\ ret.val = Zero(call.T)

\* a failing marshaller registered for int, a value present, fallback off
C5_Witness ==
    /\ Returned /\ call.T = "int" /\ RawOf(call) = <<"1">>
    /\ Registered(call.opts, call.T)
    /\ EffectiveMarshaller(call.opts, call.T).fails
    /\ ~EffectiveFallback(call.opts)
    /\ ret.err.kind = "custom"
    /\ EventsOf("switch") = {}

----------------------------------------------------------------------------
(* Sequences of literals, read off the raw string of a call *)

\* where sep starts in raw
SepAt(raw, sep) ==
    {i \in 1..(Len(raw) - Len(sep) + 1) : SubSeq(raw, i, i + Len(sep) - 1) = sep}

\* the sets of occurrences of sep in raw that do not overlap
Cuts(raw, sep) ==
    {P \in SUBSET SepAt(raw, sep) :
        \A p, q \in P : p < q => p + Len(sep) <= q}

Least(P) == CHOOSE p \in P : \A q \in P : p <= q

\* raw from start on, cut at the occurrences P of sep
RECURSIVE PiecesFrom(_, _, _, _)
PiecesFrom(raw, sep, P, start) ==
    IF P = {} THEN <<SubSeq(raw, start, Len(raw))>>
    ELSE <<SubSeq(raw, start, Least(P) - 1)>>
            \o PiecesFrom(raw, sep, P \ {Least(P)}, Least(P) + Len(sep))

\* every list of strings that, joined by sep, makes raw
Literals(raw, sep) == {PiecesFrom(raw, sep, P, 1) : P \in Cuts(raw, sep)}

ValidLiteral(E, lit, layout) ==
    E = "string" \/ ConvertElem(E, lit, layout).ok

ConversionOf(E, lit, layout) ==
    IF E = "string" THEN lit ELSE ConvertElem(E, lit, layout).val

\* the sequence of the conversions of lits, as a value of type T
Converted(T, lits, layout) ==
    Val(T, Slice([i \in 1..Len(lits) |->
                    ConversionOf(ElemType(T), lits[i], layout)]))

\* a call about a built-in sequence type, with valid options and no
\* marshaller for the type
SequenceCall(c) ==
    /\ pc = "returned" /\ c.fn = "FromEnvOrDefault"
    /\ c.T \in SliceTypes /\ AllValid(c.opts) /\ ~Registered(c.opts, c.T)

WithoutSeparator(opts) ==
    SelectSeq(opts, LAMBDA o : o.opt # "WithEnvParseSeparator")

\* the call c, its raw string being lits joined by ';', returns what a call
\* under the default separator returns for lits joined by ','
SameUnderComma(c, lits) ==
    (/\ EffectiveSeparator(c.opts) = <<";">>
     /\ \A i \in 1..Len(lits) :
            ~Contains(lits[i], <<",">>) /\ ~Contains(lits[i], <<";">>))
        => /\ ret.val =
                FromEnvOrDefault(c.T, c.envVar, c.defaultVal,
                                 WithoutSeparator(c.opts),
                                 Environ(Join(lits, <<",">>))).val
           /\ ret.err =
                FromEnvOrDefault(c.T, c.envVar, c.defaultVal,
                                 WithoutSeparator(c.opts),
                                 Environ(Join(lits, <<",">>))).err

\* the call c returns the conversions of lits, in order
YieldsLiterals(c, lits) ==
    /\ ret.err = NilError
    /\ ret.val = Converted(c.T, lits, EffectiveLayout(c.opts))
    /\ SameUnderComma(c, lits)

LiteralsWithout(c, lits, sep) ==
    \A i \in 1..Len(lits) :
        /\ ValidLiteral(ElemType(c.T), lits[i], EffectiveLayout(c.opts))
        /\ ~Contains(lits[i], sep)

\* C6, as stated: for a built-in sequence type and the separator s of the
\* call, a raw string made of n valid literals joined by s, none containing
\* s, yields the n conversions in order, and the same under ';' as under ','.
C6_AnyJoinedLiterals ==
    SequenceCall(call)
        => \A lits \in Literals(RawOf(call), EffectiveSeparator(call.opts)) :
              LiteralsWithout(call, lits, EffectiveSeparator(call.opts))
                 => YieldsLiterals(call, lits)

Segments(raw, sep) == PiecesFrom(raw, sep, SepAt(raw, sep), 1)

PlainLiterals(c, lits) ==
    \A i \in 1..Len(lits) :
        /\ ValidLiteral(ElemType(c.T), lits[i], EffectiveLayout(c.opts))
        /\ lits[i] = TrimSpace(lits[i])

\* C6, amended: for a built-in sequence type and the separator s of the
\* call, a non-empty raw string in which the occurrences of s do not
\* overlap, and whose segments between them are valid literals without
\* leading or trailing whitespace, yields the conversions of the segments in
\* order, one per segment, and the same under ';' as under ','.
C6_JoinedLiterals ==
    (/\ SequenceCall(call)
     /\ RawOf(call) # <<>>
     /\ SepAt(RawOf(call), EffectiveSeparator(call.opts))
            \in Cuts(RawOf(call), EffectiveSeparator(call.opts))
     /\ PlainLiterals(call, Segments(RawOf(call),
                                     EffectiveSeparator(call.opts))))
        => /\ YieldsLiterals(call, Segments(RawOf(call),
                                            EffectiveSeparator(call.opts)))
           /\ Len(ret.val[2].elems) =
                Cardinality(SepAt(RawOf(call),
                                  EffectiveSeparator(call.opts))) + 1

\* "a;b;c" under the separator ';' as a sequence of strings: three elements
C6_Witness ==
    /\ SequenceCall(call) /\ call.T = "[]string"
    /\ EffectiveSeparator(call.opts) = <<";">>
    /\ RawOf(call) = <<"a", ";", "b", ";", "c">>
    /\ ret.val = Val("[]string", Slice(<<<<"a">>, <<"b">>, <<"c">>>>))

\* C7: for every built-in sequence type, the sequence of strings included,
\* a call that succeeds returns the conversions of the segments with their
\* leading and trailing whitespace removed.
C7_SegmentsTrimmed ==
    (/\ SequenceCall(call) /\ RawOf(call) # <<>>
     /\ ~EffectiveFallback(call.opts) /\ ret.err = NilError)
        => ret.val =
             Converted(call.T,
                       splitAndTrim(RawOf(call),
                                    EffectiveSeparator(call.opts)),
                       EffectiveLayout(call.opts))

BadSegments(E, segs, layout) ==
    {i \in 1..Len(segs) : ~ConvertElem(E, segs[i], layout).ok}

ReportsItem(segs, at) ==
    /\ ret.err.kind = "parse"
    /\ ret.err.pos = at - 1
    /\ ret.err.item = segs[at]
    /\ [i \in 1..at |-> Ev("convert", segs[i])]
          = SelectSeq(trace, LAMBDA e : e.ev = "convert")

ReportsFirstOf(segs, bad) ==
    IF bad = {} THEN ret.err = NilError ELSE ReportsItem(segs, Least(bad))

\* C8: when a sequence call fails with fallback off, the error names the
\* trimmed text and the 0-based index of the first segment that does not
\* convert, and no segment after it was converted.
C8_FirstFailureReported ==
    (/\ SequenceCall(call) /\ call.T # "[]string" /\ RawOf(call) # <<>>
     /\ ~EffectiveFallback(call.opts))
        => ReportsFirstOf(
              splitAndTrim(RawOf(call), EffectiveSeparator(call.opts)),
              BadSegments(ElemType(call.T),
                          splitAndTrim(RawOf(call),
                                       EffectiveSeparator(call.opts)),
                          EffectiveLayout(call.opts)))

\* "32,-2,abcd" as a sequence of uint: item "-2" at position 1
C8_Witness ==
    /\ SequenceCall(call) /\ call.T = "[]uint"
    /\ RawOf(call) = <<"3", "2", ",", "-", "2", ",", "a", "b", "c", "d">>
    /\ ~EffectiveFallback(call.opts)
    /\ ret.err.item = <<"-", "2">> /\ ret.err.pos = 1
    /\ Cardinality(EventsOf("convert")) = 2

SegmentFailed(c) ==
    \E i \in EventsOf("convert") :
        ~ConvertElem(ElemType(c.T), trace[i].arg, EffectiveLayout(c.opts)).ok

\* C9: a call that returns an error returns the zero value of T with it,
\* and a sequence call that converted some segment in vain and yet returns
\* no error returns the whole default.
C9_AllOrNothing ==
    Returned
        => /\ ret.err # NilError => ret.val = Zero(call.T)
           /\ (/\ call.T \in SliceTypes /\ ret.err = NilError
               /\ SegmentFailed(call))
                => ret.val = call.defaultVal

\* "1,a" as a sequence of a number type, fallback off: "1" was converted,
\* "a" failed, and nothing of the sequence is returned
C9_Witness ==
    /\ Returned /\ call.T = "[]int" /\ RawOf(call) = <<"1", ",", "a">>
    /\ ret.err.kind = "parse" /\ ret.err.pos = 1
    /\ Cardinality(EventsOf("convert")) = 2
    /\ ret.val = Zero(call.T)

\* C10: whatever calls were made with whatever options, the package-level
\* option set and its marshaller map are what they were at the start.
C10_DefaultsUntouched ==
    /\ defaultParseOptions =
          EnvParseOpts(OsGetenv, <<",">>, FALSE, RFC3339, FALSE, "global")
    /\ globalMarshallers = EmptyRegistry

\* a call that set a separator and registered a marshaller has returned
C10_Witness ==
    /\ pc = "returned" /\ AllValid(call.opts) /\ Len(call.opts) = 2
    /\ call.opts[1] = WithEnvParseSeparator(<<";">>)
    /\ Registered(call.opts, call.T)
    /\ ret.err = NilError
    /\ Cardinality(EventsOf("marshal")) = 1
    /\ globalMarshallers = EmptyRegistry
    /\ defaultParseOptions.separator = <<",">>

----------------------------------------------------------------------------
(* Concurrent calls *)

\* what the call goroutine g is in returns when it runs alone
Alone(g) ==
    FromEnvOrDefault(goroutines[g].T, goroutines[g].envVar,
                     goroutines[g].defaultVal, goroutines[g].opts,
                     ConcurrentEnviron)

ReturnsAsAlone(g, alone) ==
    /\ goroutines[g].ret.val = alone.val
    /\ goroutines[g].ret.err = alone.err

\* C11: under every interleaving of concurrent FromEnvOrDefault calls with
\* different options, each call returns the value and the error it returns
\* when run alone, and no call writes the package-level option set or its
\* marshaller map, which is all the calls share.
C11_CallsIsolated ==
    /\ defaultParseOptions =
          EnvParseOpts(OsGetenv, <<",">>, FALSE, RFC3339, FALSE, "global")
    /\ globalMarshallers = EmptyRegistry
    /\ \A g \in Goroutines :
          goroutines[g].pc = "done" => ReturnsAsAlone(g, Alone(g))

\* two calls for the same type and variable are about to return together:
\* one registered a marshaller and read its own loader, the other split the
\* process environment's value at its own separator and failed
C11_Witness ==
    /\ goroutines[1].pc = "done" /\ goroutines[2].pc = "done"
    /\ goroutines[1].T = goroutines[2].T
    /\ HasMarshaller(goroutines[1].local, goroutines[1].T)
    /\ goroutines[1].ret.err = NilError
    /\ goroutines[2].opts = <<WithEnvParseSeparator(<<";">>)>>
    /\ goroutines[2].ret.err.kind = "parse"
    /\ goroutines[2].ret.err.pos = 0

----------------------------------------------------------------------------
(* Order of the options *)

FieldConstructors ==
    {"WithEnvLoader", "WithEnvParseSeparator", "WithFallbackToDefaultOnError",
     "WithTimeLayout", "WithSensitive"}

EffectiveSensitive(opts) ==
    /\ LastOf(opts, "WithSensitive") # 0
    /\ opts[LastOf(opts, "WithSensitive")].flag

\* the positions of the options that are the last of their field
LastPerField(opts) == {LastOf(opts, n) : n \in FieldConstructors} \ {0}

\* the options at the positions at, from the last to the first
RECURSIVE Backwards(_, _)
Backwards(opts, at) ==
    IF at = {} THEN <<>>
    ELSE LET i == CHOOSE i \in at : \A j \in at : j <= i
         IN  <<opts[i]>> \o Backwards(opts, at \ {i})

IsRegistration(opt) == opt.opt = "WithCustomMarshaller"

\* opts with only the last option of each field kept, these in the
\* opposite order, and the marshaller registrations moved behind them
LastOnlyReordered(opts) ==
    Backwards(opts, LastPerField(opts)) \o SelectSeq(opts, IsRegistration)

\* the option set the loop over opts leaves
OptionSetOf(opts) == ApplyOptions(opts, Start.o, Start.heap).o

SameResult(r) == ret.val = r.val /\ ret.err = r.err

\* C12: the options are applied left to right: for the loader, the
\* separator, the fallback flag, the time layout and the sensitivity the
\* effective value is the one of the last option for that field, or the
\* default without one, and options for different fields commute: a call
\* returns what it returns with only the last option of each field, in
\* another order.
C12_LastOptionWins ==
    Returned /\ AllValid(call.opts) =>
        /\ OptionSetOf(call.opts).envLoader = EffectiveLoader(call.opts)
        /\ OptionSetOf(call.opts).separator = EffectiveSeparator(call.opts)
        /\ OptionSetOf(call.opts).defaultOnError = EffectiveFallback(call.opts)
        /\ OptionSetOf(call.opts).timeLayout = EffectiveLayout(call.opts)
        /\ OptionSetOf(call.opts).sensitive = EffectiveSensitive(call.opts)
        /\ SameResult(FromEnvOrDefault(call.T, call.envVar, call.defaultVal,
                                       LastOnlyReordered(call.opts),
                                       call.environ))

\* "1,a" read as []int under separator ";" and then ",": the second
\* separator splits it, and the item at position 1 fails
C12_Witness ==
    /\ Returned
    /\ call.T = "[]int"
    /\ call.opts = <<WithEnvParseSeparator(<<";">>),
                     WithEnvParseSeparator(<<",">>)>>
    /\ ret.err.kind = "parse"
    /\ ret.err.pos = 1

----------------------------------------------------------------------------
(* MustFromEnvOrDefault *)

MustCalled == call.fn = "MustFromEnvOrDefault"

\* the process has gone on with the value r.val
MustReturns(r) ==
    /\ pc = "returned"
    /\ ret.val = r.val
    /\ exitCode = 0
    /\ log = <<>>

\* the process has ended with a non-zero status, the variable and the error
\* r.err logged, and nothing returned
MustExits(r) ==
    /\ pc = "exited"
    /\ exitCode # 0
    /\ ret = NoReturn
    /\ Len(log) = 1
    /\ log[1].env_var = call.envVar
    /\ log[1].error = r.err

MustFollows(r) == IF r.err = NilError THEN MustReturns(r) ELSE MustExits(r)

\* C13: MustFromEnvOrDefault returns the value FromEnvOrDefault returns for
\* the same arguments whenever that returns a nil error (the default on
\* absence and on fallback included); whenever FromEnvOrDefault returns an
\* error, an option error included, it logs the variable name and the error
\* and ends the process with a non-zero status, returning nothing.
C13_MustReturnsOrExits ==
    MustCalled =>
        MustFollows(FromEnvOrDefault(call.T, call.envVar, call.defaultVal,
                                     call.opts, call.environ))

\* MustFromEnvOrDefault given an invalid option: the option error is logged
\* with the variable name and the process has ended with status 1
C13_Witness ==
    /\ MustCalled
    /\ pc = "exited"
    /\ exitCode = 1
    /\ ~AllValid(call.opts)
    /\ log = <<LogRecord(call.envVar,
                         Error("option", <<>>, "nil",
                               Cause("separator cannot be empty string")))>>

----------------------------------------------------------------------------
(* url.URL *)

URLCall ==
    /\ Returned
    /\ call.T = "url.URL"
    /\ AllValid(call.opts)
    /\ ~Registered(call.opts, call.T)
    /\ RawOf(call) # <<>>

\* the call returned the structured URL u.val, or failed as malformed input
\* does: the cause of url.Parse, or the default when fallback is on
YieldsURL(u) ==
    IF u.ok
    THEN ret.err = NilError /\ ret.val = Val("url.URL", u.val)
    ELSE IF EffectiveFallback(call.opts)
    THEN ret.err = NilError /\ ret.val = call.defaultVal
    ELSE ret.err.kind = "parse" /\ ret.err.cause = u.cause

\* C14: for target type url.URL a non-empty raw string that is a
\* well-formed URL yields the parsed structured URL and a nil error; only
\* malformed input fails.
C14_WellFormedURLParsed == URLCall => YieldsURL(UrlParse(RawOf(call)))

----------------------------------------------------------------------------
(* time.Time *)

TimeCall ==
    /\ Returned
    /\ call.T \in {"time.Time", "[]time.Time"}
    /\ AllValid(call.opts)
    /\ ~Registered(call.opts, call.T)
    /\ RawOf(call) # <<>>

\* the strings of the call that are to be timestamps
Timestamps(c) ==
    IF c.T = "time.Time" THEN <<RawOf(c)>>
    ELSE splitAndTrim(RawOf(c), EffectiveSeparator(c.opts))

\* the instants the strings ts are under layout, as a value of type T
Instants(T, ts, layout) ==
    IF T = "time.Time" THEN Val(T, TimeParse(layout, ts[1]).val)
    ELSE Val(T, Slice([i \in 1..Len(ts) |-> TimeParse(layout, ts[i]).val]))

\* the call returned what timestamps ts give under layout: their instants
\* if each matches layout, else a time-parsing error, or the default when
\* fallback is on
ParsedUnder(ts, layout) ==
    IF \A i \in 1..Len(ts) : TimeParse(layout, ts[i]).ok
    THEN ret.err = NilError /\ ret.val = Instants(call.T, ts, layout)
    ELSE IF EffectiveFallback(call.opts)
    THEN ret.err = NilError /\ ret.val = call.defaultVal
    ELSE ret.err.kind = "parse" /\ ret.err.cause = ErrTime

\* C15: for time.Time, and each element of []time.Time, the raw string is
\* parsed with the effective layout, RFC3339 unless the last WithTimeLayout
\* option says otherwise: a string that matches it yields that instant, one
\* that does not fails with a time-parsing error, or yields the default
\* when fallback is on.
C15_ParsedWithEffectiveLayout ==
    TimeCall => ParsedUnder(Timestamps(call), EffectiveLayout(call.opts))

\* "2021-01-01T00:00:00Z", which the default layout accepts, read under
\* WithTimeLayout(time.RFC1123): a time-parsing error
C15_Witness ==
    /\ TimeCall
    /\ call.T = "time.Time"
    /\ RawOf(call) = TSChars
    /\ call.opts = <<WithTimeLayout(RFC1123)>>
    /\ ret.err.kind = "parse"
    /\ ret.err.cause = ErrTime

----------------------------------------------------------------------------
(* Types without a case *)

UnsupportedCall ==
    /\ Returned
    /\ AllValid(call.opts)
    /\ Unsupported(call)
    /\ RawOf(call) # <<>>

----------------------------------------------------------------------------
(* Canonical text of a value *)

\* the decimal digits of a natural number
RECURSIVE Digits(_)
Digits(n) ==
    IF n < 10 THEN <<CHOOSE c \in DigitChars : DigitValue(c) = n>>
    ELSE Digits(n \div 10) \o Digits(n % 10)

\* strconv.FormatBool
FormatBool(b) ==
    IF b THEN <<"t", "r", "u", "e">> ELSE <<"f", "a", "l", "s", "e">>

\* strconv.FormatInt, FormatUint, and FormatFloat of an integral value
FormatNumber(n) == IF n.neg THEN <<"-">> \o n.mag ELSE n.mag

\* Duration.String of d >= 0 whole seconds: "1h0m0s", "1m0s", "1s", "0s"
FormatSeconds(d) ==
    IF d >= 3600
    THEN Digits(d \div 3600) \o <<"h">> \o Digits((d % 3600) \div 60)
            \o <<"m">> \o Digits(d % 60) \o <<"s">>
    ELSE IF d >= 60
    THEN Digits(d \div 60) \o <<"m">> \o Digits(d % 60) \o <<"s">>
    ELSE Digits(d) \o <<"s">>

FormatDuration(d) ==
    IF d < 0 THEN <<"-">> \o FormatSeconds(-d) ELSE FormatSeconds(d)

\* Time.Format(time.RFC3339) of the instants of the model
FormatTime(t) ==
    IF t = ZeroTime
    THEN <<"0", "0", "0", "1", "-", "0", "1", "-", "0", "1", "T",
           "0", "0", ":", "0", "0", ":", "0", "0", "Z">>
    ELSE TSChars

\* URL.String of a URL without host, query and fragment
FormatURL(u) ==
    IF u.Scheme # <<>> THEN u.Scheme \o <<":">> \o u.Opaque
    ELSE IF Contains(u.Path, <<":">>) THEN <<".", "/">> \o u.Path
    ELSE u.Path

\* the canonical text of the value of type T that holds rep
Canonical(T, rep) ==
    CASE T = "string" -> rep
      [] T = "bool" -> FormatBool(rep)
      [] T \in {"int", "uint", "int64", "uint64", "float64"} ->
            FormatNumber(rep)
      [] T = "time.Duration" -> FormatDuration(rep)
      [] T = "time.Time" -> FormatTime(rep)
      [] T = "url.URL" -> FormatURL(rep)

\* values of type T to format
ValuesOf(T) ==
    CASE T = "string" -> {<<"a">>, <<"a", "b">>, <<"1", " ", "a">>}
      [] T = "bool" -> {TRUE, FALSE}
      [] T \in {"uint", "uint64"} ->
            {ZeroNumber, Number(FALSE, <<"1">>), Number(FALSE, <<"1", "1">>)}
      [] T \in {"int", "int64", "float64"} ->
            {ZeroNumber, Number(FALSE, <<"1">>), Number(TRUE, <<"1">>),
             Number(TRUE, <<"1", "1">>)}
      [] T = "time.Duration" -> {0, 1, 11, 60, -1}
      [] T = "time.Time" -> {"2021-01-01T00:00:00Z", ZeroTime}
      [] T = "url.URL" ->
            {URL(<<>>, <<>>, <<"a">>), URL(<<>>, <<>>, <<"1", "1">>),
             URL(<<"a">>, <<"1">>, <<>>)}

\* if the raw string of the call is the canonical text of v, the call
\* returned v and a nil error
RoundTrips(T, v) ==
    Canonical(T, v) = RawOf(call) =>
        ret.err = NilError /\ ret.val = Val(T, v)

\* C17: for every built-in scalar type and every value v of it, parsing
\* the canonical text of v with the default options returns v and a nil
\* error.
C17_FormatThenParse ==
    (/\ Returned /\ call.T \in ScalarTypes /\ call.opts = <<>>
     /\ RawOf(call) # <<>>)
        => \A v \in ValuesOf(call.T) : RoundTrips(call.T, v)

----------------------------------------------------------------------------
(* The option set while it is built *)

\* goroutine g holds an option set: the copy, with some options applied or
\* all of them, up to the conversion and the return
HoldsOptionSet(g) == goroutines[g].pc \in {"options", "done"}

\* C18: in every state reached while a call builds its option set, and
\* when the raw string is converted, the separator and the time layout are
\* non-empty strings: no sequence of option applications leaves either
\* field empty.
C18_SeparatorAndLayoutNonEmpty ==
    \A g \in Goroutines :
        HoldsOptionSet(g) =>
            /\ goroutines[g].parseOpts.separator # <<>>
            /\ goroutines[g].parseOpts.timeLayout # ""

\* a call whose first option is WithEnvParseSeparator(""): the option has
\* run and failed, and the separator is still ","
C18_Witness ==
    /\ goroutines[1].pc = "options"
    /\ goroutines[1].next = 2
    /\ goroutines[1].opts[1] = WithEnvParseSeparator(<<>>)
    /\ goroutines[1].err = "separator cannot be empty string"
    /\ goroutines[1].parseOpts.separator = <<",">>

----------------------------------------------------------------------------
(* []string *)

StringsCall ==
    /\ SequenceCall(call)
    /\ call.T = "[]string"
    /\ RawOf(call) # <<>>

\* C19: for []string a non-empty raw string never yields an error,
\* whatever the separator, and one without an occurrence of the effective
\* separator yields the one-element sequence holding that string.
C19_StringsNeverFail ==
    StringsCall =>
        /\ ret.err = NilError
        /\ ~Contains(RawOf(call), EffectiveSeparator(call.opts))
              => ret.val = Val("[]string", Slice(<<RawOf(call)>>))

\* "a;b;c" read as []string under the default separator: one element
C19_Witness ==
    /\ StringsCall
    /\ call.opts = <<>>
    /\ RawOf(call) = <<"a", ";", "b", ";", "c">>
    /\ ret.err = NilError
    /\ ret.val = Val("[]string", Slice(<<RawOf(call)>>))

----------------------------------------------------------------------------
(* Sensitive values *)

\* the message of err holds text of the raw string of call c: the item of
\* "item %s (pos: %d) failed to parse"
Discloses(err, c) == err.item # <<>> /\ Contains(RawOf(c), err.item)

\* C20: with WithSensitive(true) in effect the raw value is not logged:
\* neither the error FromEnvOrDefault returns nor the record
\* MustFromEnvOrDefault logs holds the raw string or a segment of it.
C20_SensitiveNotDisclosed ==
    (call.fn # "none" /\ EffectiveSensitive(call.opts)) =>
        /\ ~Discloses(ret.err, call)
        /\ \A i \in 1..Len(log) : ~Discloses(log[i].error, call)

----------------------------------------------------------------------------
(* Marshallers that return a value of another type *)

\* FromEnvOrDefault was called with valid options and found a non-empty
\* raw string
CalledOnValue ==
    /\ call.fn = "FromEnvOrDefault"
    /\ AllValid(call.opts)
    /\ RawOf(call) # <<>>

\* the registry the loop over opts leaves
RegistryAfter(applied) == Registry(applied.o, applied.heap)

\* the registry call c looks its marshaller up in
RegistryOf(c) == RegistryAfter(ApplyOptions(c.opts, Start.o, Start.heap))

\* the marshaller call c finds for its type returns a nil error and a
\* value that is no T: one of a type not assignable to T, or nil
Mistyped(c) ==
    /\ HasMarshaller(RegistryOf(c), TypeOf(c.T))
    /\ ~RegistryOf(c)[TypeOf(c.T)].fails
    /\ ~RegistryOf(c)[TypeOf(c.T)].nilFunc
    /\ ~Implements(RegistryOf(c)[TypeOf(c.T)].produces, c.T)

----------------------------------------------------------------------------
(* Ranges of the integer types *)

\* s is a base-10 numeral: digits, after a minus sign or not
IsNumeral(s) ==
    /\ s # <<>>
    /\ IF Head(s) = "-" THEN Tail(s) # <<>> /\ AllDigits(Tail(s))
       ELSE AllDigits(s)

\* the magnitude of the numeral s, without leading zeros
Magnitude(s) == StripZeros(IF Head(s) = "-" THEN Tail(s) ELSE s)

\* the number the numeral s denotes
Denoted(s) == Number(Head(s) = "-", Magnitude(s))

\* the numeral s is written without a minus sign and is at most 2^64-1
\* (uint, uint64), or lies between -2^63 and 2^63-1 (int, int64)
InRange(E, s) ==
    IF E \in {"uint", "uint64"}
    THEN Head(s) # "-" /\ MagLeq(Magnitude(s), MaxUint64)
    ELSE IF Head(s) = "-" THEN MagLeq(Magnitude(s), MinInt64Mag)
    ELSE MagLeq(Magnitude(s), MaxInt64)

\* the strings of the call that are read as integers
Numerals(c) ==
    IF c.T \in ScalarTypes THEN <<RawOf(c)>>
    ELSE splitAndTrim(RawOf(c), EffectiveSeparator(c.opts))

\* the numbers the numerals ns denote, as a value of type T
NumbersOf(T, ns) ==
    IF T \in ScalarTypes THEN Val(T, Denoted(ns[1]))
    ELSE Val(T, Slice([i \in 1..Len(ns) |-> Denoted(ns[i])]))

IntegerCall ==
    /\ Returned
    /\ call.T \in IntegerTypes
    /\ AllValid(call.opts)
    /\ ~Registered(call.opts, call.T)
    /\ RawOf(call) # <<>>
    /\ \A i \in 1..Len(Numerals(call)) : IsNumeral(Numerals(call)[i])

\* the call returned the numbers of ns if each is in the range of E, and
\* else failed: a range or syntax error and the zero value, or the default
\* when fallback is on
ExactOrFails(E, ns) ==
    IF \A i \in 1..Len(ns) : InRange(E, ns[i])
    THEN ret.err = NilError /\ ret.val = NumbersOf(call.T, ns)
    ELSE IF EffectiveFallback(call.opts)
    THEN ret.err = NilError /\ ret.val = call.defaultVal
    ELSE /\ ret.err.kind = "parse"
         /\ ret.err.cause \in {ErrRange, ErrSyntax}
         /\ ret.val = Zero(call.T)

\* C22: for the integer types a base-10 numeral outside the range of the
\* type fails instead of wrapping or saturating (above 2^63-1 or below
\* -2^63 for int and int64, above 2^64-1 or with a minus sign for uint and
\* uint64), and a numeral inside the range is returned exactly.
C22_OutOfRangeFails ==
    IntegerCall =>
        ExactOrFails(IF call.T \in ScalarTypes THEN call.T
                     ELSE ElemType(call.T),
                     Numerals(call))

\* 2^64 read as a uint64: a range error, not 0 and not 2^64-1
C22_Witness ==
    /\ IntegerCall
    /\ call.T = "uint64"
    /\ RawOf(call) = PastMaxUint64
    /\ ret.err.kind = "parse"
    /\ ret.err.cause = ErrRange

----------------------------------------------------------------------------
(* Order of the steps of a call *)

\* the loader was invoked once, first, with the variable of the call; a
\* marshaller was invoked at most once, right after it
LoadsThenMarshals ==
    /\ trace # <<>>
    /\ trace[1] = Ev("load", call.envVar)
    /\ EventsOf("load") = {1}
    /\ EventsOf("marshal") \subseteq {2}

\* C23: in one call the options are applied first, and if one fails
\* neither the loader nor a marshaller is invoked; otherwise the effective
\* loader is invoked exactly once with the variable name, and a marshaller
\* at most once, and only when the raw string loaded is not empty.
C23_StepsInOrder ==
    call.fn # "none" =>
        IF ~AllValid(call.opts) THEN trace = <<>>
        ELSE /\ LoadsThenMarshals
             /\ RawOf(call) = <<>> => trace = <<Ev("load", call.envVar)>>
             /\ EventsOf("marshal") # {} => Registered(call.opts, call.T)

\* a call with a loader of its own and a marshaller for its type: the
\* process environment holds nothing, the loader holds "1", and the
\* marshaller ran once after the one load
C23_Witness ==
    /\ Returned
    /\ call.environ[call.envVar] = <<>>
    /\ RawOf(call) = <<"1">>
    /\ trace = <<Ev("load", call.envVar), Ev("marshal", <<TypeOf(call.T)>>)>>

----------------------------------------------------------------------------
(* The registry of marshallers *)

\* the types the options of opts register a marshaller for
RegisteredKeys(opts) ==
    {opts[i].key : i \in {j \in 1..Len(opts) : IsRegistration(opts[j])}}

\* the registry holds, for every type registered, the marshaller
\* registered last for it, and nothing else
HoldsLastOfEach(registry, opts) ==
    /\ DOMAIN registry = RegisteredKeys(opts)
    /\ \A k \in RegisteredKeys(opts) : registry[k] = EffectiveMarshaller(opts, k)

\* the call ended as it does when marshaller m is invoked on its raw string
Invoked(m) ==
    /\ trace = <<Ev("load", call.envVar), Ev("marshal", <<TypeOf(call.T)>>)>>
    /\ IF m.nilFunc THEN pc = "panicked"
       ELSE IF m.fails
       THEN IF EffectiveFallback(call.opts)
            THEN ret.err = NilError /\ ret.val = call.defaultVal
            ELSE ret.err.kind = "custom"
       ELSE IF Implements(m.produces, call.T)
       THEN ret.err = NilError
            /\ ret.val =
                  Val(call.T,
                      IF call.T \in InterfaceTypes
                      THEN Iface(m.produces, CustomVal(m.produces, RawOf(call)))
                      ELSE CustomVal(call.T, RawOf(call)))
       ELSE ret.err.kind = "cast"

\* C24: the registry is keyed by the exact type: the marshallers registered
\* for distinct types in one option list are all retained, of two
\* registered for the same type only the later one is invoked, and one
\* registered for another type than T is never invoked by a call for T.
C24_RegistryKeyedByType ==
    (call.fn = "FromEnvOrDefault" /\ AllValid(call.opts)) =>
        /\ HoldsLastOfEach(RegistryOf(call), call.opts)
        /\ RawOf(call) # <<>> =>
              IF Registered(call.opts, call.T)
              THEN Invoked(EffectiveMarshaller(call.opts, call.T))
              ELSE EventsOf("marshal") = {}

----------------------------------------------------------------------------
(* Nil marshallers *)

\* opt registers a nil marshaller: a nil object, or a nil conversion
\* function
RegistersNil(opt) ==
    IsRegistration(opt) /\ (opt.m.isNil \/ opt.m.nilFunc)

\* some marshaller a registry holds is nil
HoldsNil(registry) ==
    \E k \in DOMAIN registry : registry[k].isNil \/ registry[k].nilFunc

\* C25: registering a nil marshaller, as an object or as a conversion
\* function, makes the call fail with an option error before the loader is
\* read; a nil marshaller is never stored in the registry and never
\* invoked.
C25_NilMarshallerRejected ==
    call.fn = "FromEnvOrDefault" =>
        /\ (\E i \in 1..Len(call.opts) : RegistersNil(call.opts[i])) =>
              /\ pc = "returned"
              /\ ret.err.kind = "option"
              /\ trace = <<>>
        /\ ~HoldsNil(RegistryOf(call))
        /\ pc # "panicked"

----------------------------------------------------------------------------
(* The context-free variant: options and their call *)

\* a call of the variant has returned to its caller
LegacyReturned == pc = "returned" /\ call.fn # "none"

\* the option set the package starts with
PackageOptions ==
    [defaultParseOptions EXCEPT !.separator = <<",">>,
                                !.defaultOnError = FALSE]

\* C26: in the context-free variant the options of a call affect that call
\* only: the package-level defaultParseOptions is the same after any
\* sequence of calls, and a call made with no options splits at "," and
\* returns an error on malformed input whatever the calls before it were
\* given.
C26_OptionsAffectOnlyTheirCall ==
    /\ defaultParseOptions = PackageOptions
    /\ (LegacyReturned /\ call.opts = <<>>) =>
          /\ ret.val = LegacyFromEnvOrDefault(
                           call.T, call.envVar, call.defaultVal, <<>>,
                           call.environ, PackageOptions).val
          /\ ret.err = LegacyFromEnvOrDefault(
                           call.T, call.envVar, call.defaultVal, <<>>,
                           call.environ, PackageOptions).err

----------------------------------------------------------------------------
(* The context-free variant: what is converted *)

\* the conversion of value to T, each piece between separators sep
\* converted on its own: whether it succeeds, and what the result holds
ValueConverted(T, value, sep) ==
    IF T = "string" THEN [ok |-> TRUE, rep |-> value]
    ELSE IF T \in ScalarTypes
    THEN [ok |-> ConvertElem(T, value, "").ok,
          rep |-> ConvertElem(T, value, "").val]
    ELSE IF T = "[]string" THEN [ok |-> TRUE, rep |-> Slice(Split(value, sep))]
    ELSE [ok |-> ParseItems(ElemType(T), Split(value, sep), 1, "", <<>>,
                            <<>>).err.cause = "",
          rep |-> Slice(ParseItems(ElemType(T), Split(value, sep), 1, "",
                                   <<>>, <<>>).vs)]

\* C27: in the context-free variant the result for a non-empty variable is
\* the conversion of the variable's value: for bool the boolean the value
\* denotes, not the name, and for a numeric sequence type each piece
\* between separators converted on its own, so that "1,2" as []int is
\* [1, 2]; a value that does not convert is an error, or the default
\* under fallback. The separator and the fallback flag are those the call
\* ran with.
C27_ConvertsTheValue ==
    (LegacyReturned /\ call.environ[call.envVar] # <<>>) =>
        IF ValueConverted(call.T, call.environ[call.envVar],
                          defaultParseOptions.separator).ok
        THEN /\ ret.err = NilError
             /\ ret.val =
                   Val(call.T,
                       ValueConverted(call.T, call.environ[call.envVar],
                                      defaultParseOptions.separator).rep)
        ELSE IF defaultParseOptions.defaultOnError
        THEN ret.err = NilError /\ ret.val = call.defaultVal
        ELSE ret.err.kind = "parse" /\ ret.val = Zero(call.T)
====
